---- MODULE Spec2Model ----
(***************************************************************************)
(* A model of iyes_perf_ui: the ColorGradient of src/src/utils.rs and the  *)
(* widget lifecycle / update systems of src/src/ui.rs, src/src/ui/widget.rs *)
(* and src/src/widgets/bar.rs.                                             *)
(***************************************************************************)
EXTENDS Integers, Sequences, FiniteSets, TLC

VARIABLES
    stops,      \* ColorGradient.stops: Vec<(FloatOrd, Oklaba)>
    lookup,     \* the last get_color_for_value call: its argument and result
    call        \* the last other call made: the method, its arguments and its result

VARIABLES
    rootCfg,         \* the PerfUiRoot component of each root entity
    comp,            \* the widget component W of each (root, widget type), if any
    changed,         \* Changed<W> as setup_perf_ui_widget<W> will see it
    rootChanged,     \* Changed<PerfUiRoot> as the setup systems will see it
    removedEv,       \* RemovedComponents<W>: the events not yet read, per widget type
    nodes,           \* the live entities below the roots
    children,        \* the Children component of each root
    childrenChanged, \* Changed<Children> as sort_perf_ui_widgets will see it
    nextId,          \* the next entity id to hand out
    pc,              \* the phase of the frame: user, setup, sort, update
    setupTodo,       \* the widget types whose setup system has yet to run this frame
    updTodo,         \* the widget nodes update_perf_ui_widget has yet to visit this frame
    src,             \* what update_value returned this frame, per (root, widget type)
    prevFailed,      \* the (root, widget type) whose fetch of the previous frame was None
    edits,           \* the number of user edits made so far
    frames           \* the number of frames begun so far

gvars == <<stops, lookup, call>>
uvars == <<rootCfg, comp, changed, rootChanged, removedEv, nodes, children,
           childrenChanged, nextId, pc, setupTodo, updTodo, src, prevFailed,
           edits, frames>>
vars == <<gvars, uvars>>

(***************************************************************************)
(* Bounds of the gradient model.                                           *)
(***************************************************************************)
MaxVal == 2       \* finite stop / query values are 0..MaxVal
MaxStops == 3     \* a gradient holds at most MaxStops stops

(***************************************************************************)
(* f32 values: finite numbers, NaN and negative infinity.                  *)
(***************************************************************************)
Num(n) == [k |-> "num", n |-> n]
NaN == [k |-> "nan", n |-> 0]
NegInf == [k |-> "ninf", n |-> 0]
IsNaN(x) == x.k = "nan"

\* IEEE comparison of two f32 (false as soon as one side is NaN)
FLe(a, b) ==
    /\ ~IsNaN(a) /\ ~IsNaN(b)
    /\ \/ a.k = "ninf"
       \/ a.k = "num" /\ b.k = "num" /\ a.n <= b.n
FGt(a, b) == ~IsNaN(a) /\ ~IsNaN(b) /\ ~FLe(a, b)

\* bevy::math::FloatOrd: a total order, NaN below everything and equal to itself
FloatOrdLe(a, b) == IsNaN(a) \/ FLe(a, b)
FloatOrdGe(a, b) == FloatOrdLe(b, a)
FloatOrdEq(a, b) == FloatOrdLe(a, b) /\ FloatOrdLe(b, a)
FloatOrdLt(a, b) == ~FloatOrdLe(b, a)

FiniteVals == {Num(n) : n \in 0..MaxVal}
FloatVals == FiniteVals \cup {NaN, NegInf}

(***************************************************************************)
(* Colors.  A Color names its color space; an Oklaba is what the gradient  *)
(* stores.  A color is either plain (a = b) or the mix of two plain colors *)
(* a and b with blend factor t.                                            *)
(***************************************************************************)
\* a blend factor: a reduced fraction num/den, or an infinity or NaN
Frac(num, den) == [k |-> "num", num |-> num, den |-> den]
FracZero == Frac(0, 1)
FracOne == Frac(1, 1)
FracNaN == [k |-> "nan", num |-> 0, den |-> 1]
FracInf(kind) == [k |-> kind, num |-> 0, den |-> 1]

Srgb(name) == [space |-> "srgb", a |-> name, b |-> name, t |-> FracZero]
Oklab(name) == [a |-> name, b |-> name, t |-> FracZero]
ColorNONE == Srgb("none")

\* impl From<Color> for Oklaba (color.into())
ToOklaba(c) == [a |-> c.a, b |-> c.b, t |-> c.t]
\* impl From<Oklaba> for Color: the result is the Color::Oklaba variant
FromOklaba(l) == [space |-> "oklaba", a |-> l.a, b |-> l.b, t |-> l.t]

Abs(x) == IF x < 0 THEN -x ELSE x

RECURSIVE Gcd(_, _)
Gcd(x, y) == IF y = 0 THEN x ELSE Gcd(y, x % y)

\* f32 subtraction x - y on num / ninf / nan operands
ExtSub(x, y) ==
    IF IsNaN(x) \/ IsNaN(y) THEN [k |-> "nan", n |-> 0]
    ELSE IF x.k = "ninf" /\ y.k = "ninf" THEN [k |-> "nan", n |-> 0]
    ELSE IF x.k = "ninf" THEN [k |-> "ninf", n |-> 0]
    ELSE IF y.k = "ninf" THEN [k |-> "pinf", n |-> 0]
    ELSE [k |-> "num", n |-> x.n - y.n]

\* f32 division p / q on num / pinf / ninf / nan operands
ExtDiv(p, q) ==
    LET flip(kind) == IF kind = "pinf" THEN "ninf" ELSE "pinf"
    IN  IF p.k = "nan" \/ q.k = "nan" THEN FracNaN
        ELSE IF p.k # "num" /\ q.k # "num" THEN FracNaN
        ELSE IF p.k # "num" THEN FracInf(IF q.n < 0 THEN flip(p.k) ELSE p.k)
        ELSE IF q.k # "num" THEN FracZero
        ELSE IF q.n = 0
             THEN IF p.n = 0 THEN FracNaN
                  ELSE FracInf(IF p.n > 0 THEN "pinf" ELSE "ninf")
        ELSE LET g == Gcd(Abs(p.n), Abs(q.n))
                 sg == IF q.n < 0 THEN -1 ELSE 1
             IN  Frac((sg * p.n) \div g, (sg * q.n) \div g)

\* Oklaba::mix(lo, hi, t) for two plain colors: lo at t = 0, hi at t = 1
MixOklaba(lo, hi, t) ==
    IF t = FracZero THEN lo
    ELSE IF t = FracOne THEN hi
    ELSE IF lo = hi /\ t.k = "num" THEN lo
    ELSE [a |-> lo.a, b |-> hi.a, t |-> t]

GradColors == {Srgb("red"), Srgb("green")}
OklabColors == {ToOklaba(c) : c \in GradColors}

Stop(v, l) == [v |-> v, c |-> l]

(***************************************************************************)
(* Constructors.                                                           *)
(***************************************************************************)
GradientNew == <<>>

GradientSingle(color) == <<Stop(NegInf, ToOklaba(color))>>

\* A faulty variant, which C14 must reject: equal values are refused as well
NewPresetRygStrict(low, mid, high) ==
    IF IsNaN(low) \/ IsNaN(mid) \/ IsNaN(high) \/ ~FGt(mid, low) \/ ~FGt(high, mid)
    THEN [ok |-> FALSE, stops |-> <<>>]
    ELSE [ok |-> TRUE,
          stops |-> << Stop(low, ToOklaba(Srgb("red"))),
                       Stop(mid, ToOklaba(Srgb("yellow"))),
                       Stop(high, ToOklaba(Srgb("green"))) >>]

NewPresetRyg(low, mid, high) ==
    IF IsNaN(low) \/ IsNaN(mid) \/ IsNaN(high) \/ FGt(low, mid) \/ FGt(mid, high)
    THEN [ok |-> FALSE, stops |-> <<>>]
    ELSE [ok |-> TRUE,
          stops |-> << Stop(low, ToOklaba(Srgb("red"))),
                       Stop(mid, ToOklaba(Srgb("yellow"))),
                       Stop(high, ToOklaba(Srgb("green"))) >>]

NewPresetGyr(low, mid, high) ==
    IF IsNaN(low) \/ IsNaN(mid) \/ IsNaN(high) \/ FGt(low, mid) \/ FGt(mid, high)
    THEN [ok |-> FALSE, stops |-> <<>>]
    ELSE [ok |-> TRUE,
          stops |-> << Stop(low, ToOklaba(Srgb("green"))),
                       Stop(mid, ToOklaba(Srgb("yellow"))),
                       Stop(high, ToOklaba(Srgb("red"))) >>]

(***************************************************************************)
(* slice::binary_search_by_key on the stop values.  Indices are 0-based as *)
(* in the source.  On a sorted slice the result is Ok(i) for a matching i  *)
(* or Err(insertion point); on an unsorted slice the result is unspecified:*)
(* Ok(i) only for a matching i, Err(i) for any i in 0..len.                *)
(***************************************************************************)
SortedStops(s) == \A i \in 1..(Len(s) - 1) : FloatOrdLe(s[i].v, s[i + 1].v)

BinarySearch(s, key) ==
    LET found == {[ok |-> TRUE, i |-> i - 1] : i \in {j \in 1..Len(s) : FloatOrdEq(s[j].v, key)}}
        below == Cardinality({j \in 1..Len(s) : FloatOrdLt(s[j].v, key)})
    IN  IF SortedStops(s)
        THEN IF found # {} THEN found ELSE {[ok |-> FALSE, i |-> below]}
        ELSE found \cup {[ok |-> FALSE, i |-> i] : i \in 0..Len(s)}

InsertAt(s, i, x) == SubSeq(s, 1, i) \o <<x>> \o SubSeq(s, i + 1, Len(s))

\* A faulty variant, which C8 must reject: the stop is pushed at the end
\* without a search
AddStopNoSearch(s, value, color) ==
    IF IsNaN(value) THEN {s} ELSE {Append(s, Stop(value, ToOklaba(color)))}

\* A faulty variant, which C11 must reject: a NaN value is searched for and
\* inserted like any other
AddStopNoNaNCheck(s, value, color) ==
    { IF r.ok
      THEN [s EXCEPT ![r.i + 1].c = ToOklaba(color)]
      ELSE InsertAt(s, r.i, Stop(value, ToOklaba(color)))
    : r \in BinarySearch(s, value) }

\* ColorGradient::add_stop: the gradients the call can leave behind
AddStop(s, value, color) ==
    IF IsNaN(value) THEN {s}
    ELSE { IF r.ok
           THEN [s EXCEPT ![r.i + 1].c = ToOklaba(color)]
           ELSE InsertAt(s, r.i, Stop(value, ToOklaba(color)))
         : r \in BinarySearch(s, value) }

(***************************************************************************)
(* ColorGradient::get_color_for_value: the outcomes of the call.           *)
(***************************************************************************)
RNone == [tag |-> "none", color |-> ColorNONE]
RSome(c) == [tag |-> "some", color |-> c]
RPanic == [tag |-> "panic", color |-> ColorNONE]

GetColorForValue(s, value) ==
    IF IsNaN(value) THEN {RNone}
    ELSE IF Len(s) = 0 THEN {RNone}
    ELSE LET first_stop == s[1]
             last_stop == s[Len(s)]
         IN  IF FloatOrdGe(value, last_stop.v) THEN {RSome(FromOklaba(last_stop.c))}
             ELSE IF FloatOrdLe(value, first_stop.v) THEN {RSome(FromOklaba(first_stop.c))}
             ELSE { IF r.ok THEN RSome(FromOklaba(s[r.i + 1].c))
                    ELSE IF r.i = 0 \/ r.i >= Len(s) THEN RPanic
                    ELSE LET stop_low == s[r.i]
                             stop_high == s[r.i + 1]
                             lerp_value == ExtDiv(ExtSub(value, stop_low.v),
                                                  ExtSub(stop_high.v, stop_low.v))
                         IN  RSome(FromOklaba(MixOklaba(stop_low.c, stop_high.c, lerp_value)))
                  : r \in BinarySearch(s, value) }

MinStop(s) == IF Len(s) = 0 THEN {} ELSE {s[1]}
MaxStop(s) == IF Len(s) = 0 THEN {} ELSE {s[Len(s)]}

\* ColorGradient::add_stops: add_stop for each item in turn
RECURSIVE AddStops(_, _)
AddStops(s, items) ==
    IF Len(items) = 0 THEN {s}
    ELSE UNION { AddStops(s2, Tail(items)) : s2 \in AddStop(s, Head(items).v, Head(items).c) }

\* ColorGradient::with_stop / with_stops: the builder forms
WithStop(s, value, color) == AddStop(s, value, color)
WithStops(s, items) == AddStops(s, items)

\* min_stop_mut / max_stop_mut / iter_stops_mut hand out &mut f32 and &mut Oklaba:
\* the caller can store any value and any color in the stop at (1-based) index i
WriteStop(s, i, value, oklaba) == [s EXCEPT ![i] = Stop(value, oklaba)]

(***************************************************************************)
(* The gradient as a state machine: one gradient value and the calls made  *)
(* on it.                                                                  *)
(***************************************************************************)
NoLookup == [called |-> FALSE, v |-> NaN, r |-> RNone]
NoCall == [op |-> "none"]
\* gradient.add_stop(value, color)
AddStopCall(value, color) == [op |-> "add_stop", v |-> value, c |-> color]

StopItems == { <<Stop(v, Srgb("red")), Stop(w, Srgb("green"))>> : v \in FloatVals, w \in FloatVals }

GInitNew ==
    /\ stops = GradientNew
    /\ lookup = NoLookup
    /\ call = NoCall

GInitAny ==
    /\ \/ stops = GradientNew
       \/ \E c \in GradColors : stops = GradientSingle(c)
       \/ \E l \in FloatVals, m \in FloatVals, h \in FloatVals :
             /\ NewPresetRyg(l, m, h).ok
             /\ stops = NewPresetRyg(l, m, h).stops
       \/ \E l \in FloatVals, m \in FloatVals, h \in FloatVals :
             /\ NewPresetGyr(l, m, h).ok
             /\ stops = NewPresetGyr(l, m, h).stops
    /\ lookup = NoLookup
    /\ call = NoCall

GAddStop(value, color) ==
    /\ \E s2 \in AddStop(stops, value, color) :
          /\ Len(s2) <= MaxStops
          /\ stops' = s2
    /\ lookup' = NoLookup
    /\ call' = AddStopCall(value, color)
    /\ UNCHANGED uvars

GAddStops(items) ==
    /\ \E s2 \in AddStops(stops, items) :
          /\ Len(s2) <= MaxStops
          /\ stops' = s2
    /\ lookup' = NoLookup
    /\ call' = NoCall
    /\ UNCHANGED uvars

GWithStop(value, color) ==
    /\ \E s2 \in WithStop(stops, value, color) :
          /\ Len(s2) <= MaxStops
          /\ stops' = s2
    /\ lookup' = NoLookup
    /\ call' = NoCall
    /\ UNCHANGED uvars

GWithStops(items) ==
    /\ \E s2 \in WithStops(stops, items) :
          /\ Len(s2) <= MaxStops
          /\ stops' = s2
    /\ lookup' = NoLookup
    /\ call' = NoCall
    /\ UNCHANGED uvars

GMinStopMut(value, oklaba) ==
    /\ Len(stops) > 0
    /\ stops' = WriteStop(stops, 1, value, oklaba)
    /\ lookup' = NoLookup
    /\ call' = NoCall
    /\ UNCHANGED uvars

GMaxStopMut(value, oklaba) ==
    /\ Len(stops) > 0
    /\ stops' = WriteStop(stops, Len(stops), value, oklaba)
    /\ lookup' = NoLookup
    /\ call' = NoCall
    /\ UNCHANGED uvars

GIterStopsMut(i, value, oklaba) ==
    /\ i \in 1..Len(stops)
    /\ stops' = WriteStop(stops, i, value, oklaba)
    /\ lookup' = NoLookup
    /\ call' = NoCall
    /\ UNCHANGED uvars

GLookup(value) ==
    /\ \E r \in GetColorForValue(stops, value) :
          lookup' = [called |-> TRUE, v |-> value, r |-> r]
    /\ call' = NoCall
    /\ UNCHANGED <<stops, uvars>>

(***************************************************************************)
(* The preset constructors as calls: the arguments and the Result.         *)
(***************************************************************************)
PresetCall(op, low, mid, high, result) ==
    [op |-> op, low |-> low, mid |-> mid, high |-> high, result |-> result]

\* ColorGradient::new_preset_ryg(low, mid, high): on Ok the gradient at hand
\* is the new one, on Err no gradient is built
GNewPresetRyg(low, mid, high) ==
    /\ call' = PresetCall("new_preset_ryg", low, mid, high, NewPresetRyg(low, mid, high))
    /\ stops' = call'.result.stops
    /\ lookup' = NoLookup
    /\ UNCHANGED uvars

GNewPresetGyr(low, mid, high) ==
    /\ call' = PresetCall("new_preset_gyr", low, mid, high, NewPresetGyr(low, mid, high))
    /\ stops' = call'.result.stops
    /\ lookup' = NoLookup
    /\ UNCHANGED uvars

\* the preset constructors alone
NextPreset ==
    \/ \E l \in FloatVals, m \in FloatVals, h \in FloatVals : GNewPresetRyg(l, m, h)
    \/ \E l \in FloatVals, m \in FloatVals, h \in FloatVals : GNewPresetGyr(l, m, h)

\* new() followed by add_stop calls only
NextAddStop ==
    \/ \E v \in FloatVals, c \in GradColors : GAddStop(v, c)
    \/ \E v \in FloatVals : GLookup(v)


\* the whole public API of ColorGradient
NextGradient ==
    \/ \E v \in FloatVals, c \in GradColors : GAddStop(v, c)
    \/ \E items \in StopItems : GAddStops(items)
    \/ \E v \in FloatVals, c \in GradColors : GWithStop(v, c)
    \/ \E items \in StopItems : GWithStops(items)
    \/ \E v \in FloatVals, l \in OklabColors : GMinStopMut(v, l)
    \/ \E v \in FloatVals, l \in OklabColors : GMaxStopMut(v, l)
    \/ \E i \in 1..MaxStops, v \in FloatVals, l \in OklabColors : GIterStopsMut(i, v, l)
    \/ \E v \in FloatVals : GLookup(v)


(***************************************************************************)
(* Claims about the gradient.                                              *)
(***************************************************************************)
StrictlyAscending(s) ==
    /\ \A i \in 1..Len(s) : ~IsNaN(s[i].v)
    /\ \A i \in 1..(Len(s) - 1) : FloatOrdLt(s[i].v, s[i + 1].v)

\* C8: starting from ColorGradient::new(), after any sequence of add_stop calls
\* the stop list is strictly ascending by value, so no two stops share a value.
C8_AddStopKeepsStrictlyAscending == StrictlyAscending(stops)

\* C8 witness: three stops were added, the lowest of them negative infinity.
C8_Witness == Len(stops) >= 3 /\ stops[1].v = NegInf /\ stops[3].v = Num(MaxVal)

\* C9 (as claimed): every gradient reachable through the public API (constructors,
\* add_stop(s), with_stop(s), *_stop_mut, iter_stops_mut) is sorted ascending and
\* unique by value.
C9_PublicApiKeepsSortedUnique == StrictlyAscending(stops)

IsHighest(s, i) == \A j \in 1..Len(s) : FLe(s[j].v, s[i].v)
IsLowest(s, i) == \A j \in 1..Len(s) : FLe(s[i].v, s[j].v)

\* C10 (as claimed): for a non-empty gradient and a non-NaN query v, a v at or above
\* the highest stop value yields the color of a stop holding that highest value,
\* and a v at or below the lowest stop value yields the color of a stop holding
\* that lowest value.
C10_ClampAtExtremes ==
    (lookup.called /\ ~IsNaN(lookup.v) /\ Len(stops) > 0) =>
        /\ \A i \in 1..Len(stops) :
              (IsHighest(stops, i) /\ FLe(stops[i].v, lookup.v)) =>
                 \E j \in 1..Len(stops) :
                    /\ IsHighest(stops, j)
                    /\ lookup.r = RSome(FromOklaba(stops[j].c))
        /\ \A i \in 1..Len(stops) :
              (IsLowest(stops, i) /\ FLe(lookup.v, stops[i].v)) =>
                 \E j \in 1..Len(stops) :
                    /\ IsLowest(stops, j)
                    /\ lookup.r = RSome(FromOklaba(stops[j].c))

\* this step is a call of add_stop with the arguments call' records
AddStopRan == call'.op = "add_stop"

\* C11: add_stop(NaN, c) leaves the gradient as it was (the same stops, values
\* and colors), whatever the gradient, and get_color_for_value(NaN) is None for
\* every gradient, empty or not.
C11_NaNIsRejected ==
    [][ /\ (AddStopRan /\ IsNaN(call'.v)) => stops' = stops
        /\ (lookup'.called /\ IsNaN(lookup'.v)) => lookup'.r = RNone ]_vars

\* C11 witness: add_stop(NaN, c) was called on a gradient that has stops
C11_Witness == call.op = "add_stop" /\ IsNaN(call.v) /\ Len(stops) >= 2

StopValues(s) == [i \in 1..Len(s) |-> s[i].v]
HasStop(s, v) == \E i \in 1..Len(s) : s[i].v = v

\* C12 (as claimed): add_stop(v, c) with a v that is a stop's value keeps the
\* number of stops and every stop value, sets the color of a stop of value v to
\* c and leaves every other stop's color as it was; a second add_stop(v, c)
\* leaves the gradient as the first left it (the search, which is deterministic,
\* finds the stop it found before).
C12_AddStopReplacesColor ==
    [][ (AddStopRan /\ ~IsNaN(call'.v) /\ HasStop(stops, call'.v)) =>
           /\ StopValues(stops') = StopValues(stops)
           /\ \E i \in 1..Len(stops) :
                 /\ stops[i].v = call'.v
                 /\ stops'[i].c = ToOklaba(call'.c)
                 /\ \A j \in 1..Len(stops) : j # i => stops'[j] = stops[j]
           /\ stops' \in AddStop(stops', call'.v, call'.c) ]_vars

\* the stops of s below / above the value v
StopsBelow(s, v) == {i \in 1..Len(s) : FloatOrdLt(s[i].v, v)}
StopsAbove(s, v) == {i \in 1..Len(s) : FloatOrdLt(v, s[i].v)}
\* the greatest stop of s below v, and the least stop of s above v
GreatestBelow(s, v) ==
    CHOOSE i \in StopsBelow(s, v) : \A j \in StopsBelow(s, v) : FloatOrdLe(s[j].v, s[i].v)
LeastAbove(s, v) ==
    CHOOSE i \in StopsAbove(s, v) : \A j \in StopsAbove(s, v) : FloatOrdLe(s[i].v, s[j].v)

\* C13 (as claimed): get_color_for_value is None on an empty gradient; for a
\* non-NaN value that is a stop's value it is the color of a stop of that value,
\* unblended; for a value strictly between the lowest and the highest stop that
\* is no stop's value it is the mix of the greatest stop below and the least
\* stop above, with the blend factor (v - low) / (high - low), which lies
\* strictly between 0 and 1.
C13_LookupInterpolatesNeighbours ==
    (lookup.called /\ ~IsNaN(lookup.v)) =>
       LET v == lookup.v
       IN  /\ Len(stops) = 0 => lookup.r = RNone
           /\ HasStop(stops, v) =>
                 \E i \in 1..Len(stops) :
                    stops[i].v = v /\ lookup.r = RSome(FromOklaba(stops[i].c))
           /\ (~HasStop(stops, v) /\ StopsBelow(stops, v) # {} /\ StopsAbove(stops, v) # {}) =>
                 LET low == stops[GreatestBelow(stops, v)]
                     high == stops[LeastAbove(stops, v)]
                     t == ExtDiv(ExtSub(v, low.v), ExtSub(high.v, low.v))
                 IN  /\ t.k = "num"
                     /\ 0 < t.num /\ t.num < t.den
                     /\ lookup.r = RSome(FromOklaba(MixOklaba(low.c, high.c, t)))

\* a > b for two values that are not NaN
ValueAbove(a, b) ==
    \/ a.k = "num" /\ b.k = "ninf"
    \/ a.k = "num" /\ b.k = "num" /\ a.n > b.n

PresetRan == call.op \in {"new_preset_ryg", "new_preset_gyr"}

RECURSIVE Spaces(_)
Spaces(n) == IF n <= 0 THEN <<>> ELSE <<" ">> \o Spaces(n - 1)

\* format!("{:>w$}", s, w = width_hint) when s.len() < width_hint, s otherwise
PadToWidth(s, width_hint) ==
    IF Len(s) < width_hint THEN Spaces(width_hint - Len(s)) \o s ELSE s

\* str::trim
RECURSIVE TrimStart(_)
TrimStart(s) == IF Len(s) > 0 /\ Head(s) = " " THEN TrimStart(Tail(s)) ELSE s
RECURSIVE TrimEnd(_)
TrimEnd(s) == IF Len(s) > 0 /\ s[Len(s)] = " " THEN TrimEnd(SubSeq(s, 1, Len(s) - 1)) ELSE s
Trim(s) == TrimEnd(TrimStart(s))

\* Option<T>
NoneV == [some |-> FALSE, v |-> 0]
SomeV(x) == [some |-> TRUE, v |-> x]
NoneF == [some |-> FALSE, v |-> NaN]
SomeF(x) == [some |-> TRUE, v |-> x]
NoneC == [some |-> FALSE, v |-> ColorNONE]
SomeC(c) == [some |-> TRUE, v |-> c]

\* PerfUiRoot: the fields the widgets read
RootDefault ==
    [ text_err |-> <<"N", "/", "A">>,
      err_color |-> Srgb("grey50"),
      default_value_color |-> Srgb("grey75"),
      font_value |-> "default",
      font_highlight |-> "default",
      inner_background_color |-> ColorNONE,
      inner_background_color_highlight |-> Srgb("red16") ]
RootCustom ==
    [ text_err |-> <<" ", "-", " ">>,
      err_color |-> Srgb("blue"),
      default_value_color |-> Srgb("white"),
      font_value |-> "regular",
      font_highlight |-> "bold",
      inner_background_color |-> Srgb("black"),
      inner_background_color_highlight |-> Srgb("orange") ]
RootCfgs == {RootDefault, RootCustom}

\* An entry type's configuration: what label / sort_key / format_value /
\* value_color / value_highlight / the range hints read.
Digits == <<"0", "1", "2", "3", "4", "5", "6", "7", "8", "9">>

EntryA ==
    [ sort_key |-> 1, width_hint |-> 4, lead |-> 1, unit |-> "a",
      color_gradient |-> GradientNew, threshold_highlight |-> SomeV(2),
      min_hint |-> NoneF, max_hint |-> NoneF ]
EntryB ==
    [ sort_key |-> -1, width_hint |-> 0, lead |-> 0, unit |-> "b",
      color_gradient |-> NewPresetRyg(Num(0), Num(1), Num(2)).stops,
      threshold_highlight |-> NoneV,
      min_hint |-> SomeF(Num(0)), max_hint |-> SomeF(Num(4)) ]
EntryC ==
    [ sort_key |-> 0, width_hint |-> 0, lead |-> 2, unit |-> "c",
      color_gradient |-> GradientNew, threshold_highlight |-> SomeV(2),
      min_hint |-> NoneF, max_hint |-> SomeF(Num(2)) ]

\* PerfUiEntry::format_value of the modelled entries: leading padding, the
\* digit of the value and a unit
FormatValue(entry, v) == Spaces(entry.lead) \o <<Digits[v + 1], entry.unit>>

\* PerfUiEntry::value_color: the entry's gradient looked up at the value
ValueColor(entry, v) ==
    LET rs == GetColorForValue(entry.color_gradient, Num(v))
        r == CHOOSE x \in rs : TRUE
    IN  IF r.tag = "some" THEN SomeC(r.color) ELSE NoneC

\* PerfUiEntry::value_highlight: the value has reached threshold_highlight
ValueHighlight(entry, v) ==
    entry.threshold_highlight.some /\ v >= entry.threshold_highlight.v

\* The widget component W carried by a root: PerfUiWidgetBar<E> with its
\* fields, or (text_position "Plain") the entry E itself, which is its own
\* widget through impl PerfUiWidget<E> for E
WidgetCfg(pos, override, dir, gradient, entry) ==
    [ text_position |-> pos, text_color_override |-> override,
      fill_direction |-> dir, bar_color |-> gradient, entry |-> entry ]
PlainWidget(entry) == WidgetCfg("Plain", NoneC, "Left", GradientNew, entry)

BarGradientRG ==
    CHOOSE g \in WithStops(GradientNew,
                     <<Stop(Num(0), Srgb("red")), Stop(Num(2), Srgb("green"))>>) : TRUE

WTypes == {"text", "bar"}
TextCfgs == {PlainWidget(EntryA), PlainWidget(EntryB)}
BarCfgs ==
    { WidgetCfg("Center", NoneC, "Left", BarGradientRG, EntryA),
      WidgetCfg("OutsideEnd", SomeC(Srgb("white")), "Right",
                GradientSingle(Srgb("grey50")), EntryB),
      WidgetCfg("NoText", NoneC, "Center", GradientNew, EntryC) }
CfgsOf(w) == IF w = "text" THEN TextCfgs ELSE BarCfgs

NoneW == [some |-> FALSE, v |-> PlainWidget(EntryA)]
SomeW(cfg) == [some |-> TRUE, v |-> cfg]

(***************************************************************************)
(* PerfUiWidgetBar::get_range and the fill of the inner bar.               *)
(***************************************************************************)
\* f64::min / f64::max: a NaN operand is ignored
FMin(a, b) == IF IsNaN(a) THEN b ELSE IF IsNaN(b) THEN a ELSE IF FLe(a, b) THEN a ELSE b
FMax(a, b) == IF IsNaN(a) THEN b ELSE IF IsNaN(b) THEN a ELSE IF FLe(a, b) THEN b ELSE a

\* == on Option<f64>
OptFEq(x, y) ==
    \/ ~x.some /\ ~y.some
    \/ x.some /\ y.some /\ FLe(x.v, y.v) /\ FLe(y.v, x.v)

NoRange == [some |-> FALSE, min |-> NaN, max |-> NaN]
SomeRange(lo, hi) == [some |-> TRUE, min |-> lo, max |-> hi]

\* A faulty variant, which C18 must reject: a gradient with an extent decides
\* the range alone and the hints are ignored
GetRangeGradientOnly(bar_color, h_min, h_max) ==
    LET g_min == IF MinStop(bar_color) = {} THEN NoneF
                 ELSE SomeF((CHOOSE x \in MinStop(bar_color) : TRUE).v)
        g_max == IF MaxStop(bar_color) = {} THEN NoneF
                 ELSE SomeF((CHOOSE x \in MaxStop(bar_color) : TRUE).v)
    IN  IF OptFEq(g_min, g_max)
        THEN IF h_min.some /\ h_max.some THEN SomeRange(h_min.v, h_max.v) ELSE NoRange
        ELSE SomeRange(g_min.v, g_max.v)

GetRange(bar_color, h_min, h_max) ==
    LET g_min == IF MinStop(bar_color) = {} THEN NoneF
                 ELSE SomeF((CHOOSE x \in MinStop(bar_color) : TRUE).v)
        g_max == IF MaxStop(bar_color) = {} THEN NoneF
                 ELSE SomeF((CHOOSE x \in MaxStop(bar_color) : TRUE).v)
    IN  IF OptFEq(g_min, g_max)
        THEN IF h_min.some /\ h_max.some THEN SomeRange(h_min.v, h_max.v) ELSE NoRange
        ELSE IF ~g_min.some /\ ~h_min.some THEN NoRange
        ELSE IF ~g_max.some /\ ~h_max.some THEN NoRange
        ELSE SomeRange(
               IF g_min.some /\ h_min.some THEN FMin(g_min.v, h_min.v)
               ELSE IF g_min.some THEN g_min.v ELSE h_min.v,
               IF g_max.some /\ h_max.some THEN FMax(g_max.v, h_max.v)
               ELSE IF g_max.some THEN g_max.v ELSE h_max.v)

\* f64::clamp(0.0, 1.0) of a quotient: NaN stays NaN
Clamp01(f) ==
    IF f.k = "nan" THEN FracNaN
    ELSE IF f.k = "pinf" THEN FracOne
    ELSE IF f.k = "ninf" THEN FracZero
    ELSE IF f.num <= 0 THEN FracZero
    ELSE IF f.num >= f.den THEN FracOne
    ELSE f

\* the fill fraction ((value - v_min) / (v_max - v_min)).clamp(0.0, 1.0)
FillFraction(value, range) ==
    Clamp01(ExtDiv(ExtSub(value, range.min), ExtSub(range.max, range.min)))

\* 1 - f and (1 - f) / 2 of a clamped fraction
OneMinus(f) == IF f.k = "nan" THEN FracNaN ELSE ExtDiv([k |-> "num", n |-> f.den - f.num], [k |-> "num", n |-> f.den])
HalfOf(f) == IF f.k = "nan" THEN FracNaN ELSE ExtDiv([k |-> "num", n |-> f.num], [k |-> "num", n |-> 2 * f.den])

\* the left / right offsets of the inner bar, as fractions of 100 percent
FillOffsets(dir, f) ==
    IF dir = "Left" THEN [left |-> FracZero, right |-> OneMinus(f)]
    ELSE IF dir = "Right" THEN [left |-> OneMinus(f), right |-> FracZero]
    ELSE [left |-> HalfOf(OneMinus(f)), right |-> HalfOf(OneMinus(f))]
EmptyOffsets == [left |-> FracZero, right |-> FracOne]

\* A faulty variant, which C20 must reject: without a value or a range the
\* inner bar is left as the previous update drew it
InnerBarUpdateKeepsFill(prev, fill_direction, value, range) ==
    IF value.some /\ range.some
    THEN FillOffsets(fill_direction, FillFraction(value.v, range))
    ELSE prev

\* PerfUiWidgetBar::update, the Node of the inner bar: the offsets written for
\* the fetched value (cast to f64) and the result of get_range; prev are the
\* offsets the inner bar has before the call
InnerBarUpdate(prev, fill_direction, value, range) ==
    IF value.some /\ range.some
    THEN FillOffsets(fill_direction, FillFraction(value.v, range))
    ELSE EmptyOffsets

(***************************************************************************)
(* PerfUiEntryEntityCount and its range hints.                             *)
(***************************************************************************)
EntityCountDefault ==
    [ color_gradient |-> NewPresetGyr(Num(100), Num(1000), Num(10000)).stops,
      threshold_highlight |-> SomeV(20000),
      max_value_hint |-> NoneV ]

\* `x as u32` for an f32 x: saturating, NaN to 0 (the modelled values are whole)
AsU32(x) == IF x.k = "num" /\ x.n > 0 THEN x.n ELSE 0

IntMax(a, b) == IF a >= b THEN a ELSE b

\* impl PerfUiEntryDisplayRange for PerfUiEntryEntityCount :: max_value_hint
EntityCountMaxValueHint(entry) ==
    IF entry.max_value_hint.some THEN entry.max_value_hint
    ELSE IF entry.threshold_highlight.some /\ MaxStop(entry.color_gradient) = {}
         THEN entry.threshold_highlight
    ELSE IF entry.threshold_highlight.some
         THEN SomeV(IntMax(entry.threshold_highlight.v,
                           AsU32((CHOOSE x \in MaxStop(entry.color_gradient) : TRUE).v)))
    ELSE IF MaxStop(entry.color_gradient) # {}
         THEN SomeV(AsU32((CHOOSE x \in MaxStop(entry.color_gradient) : TRUE).v))
    ELSE NoneV

\* impl PerfUiEntryDisplayRange for PerfUiEntryEntityCount :: min_value_hint
EntityCountMinValueHint(entry) == SomeV(0)

\* <f64 as NumCast>::from(v) on an Option<u32>
HintAsF64(h) == IF h.some THEN SomeF(Num(h.v)) ELSE NoneF

\* impl PerfUiEntryDisplayRange for PerfUiEntryFPS :: max_value_hint, and the
\* same body in the other entries whose fields are f32 (FPS worst / average /
\* low, frame time, frame time worst, render CPU / GPU time); the final
\* `as f64` widens an f32 without changing its value
FloatMaxValueHint(entry) ==
    IF entry.max_value_hint.some THEN entry.max_value_hint
    ELSE IF entry.threshold_highlight.some /\ MaxStop(entry.color_gradient) = {}
         THEN entry.threshold_highlight
    ELSE IF entry.threshold_highlight.some
         THEN SomeF(FMax(entry.threshold_highlight.v,
                         (CHOOSE x \in MaxStop(entry.color_gradient) : TRUE).v))
    ELSE IF MaxStop(entry.color_gradient) # {}
         THEN SomeF((CHOOSE x \in MaxStop(entry.color_gradient) : TRUE).v)
    ELSE NoneF

(***************************************************************************)
(* One predefined entry alone: its color_gradient (stops), its             *)
(* max_value_hint and threshold_highlight fields (call), and the calls of  *)
(* max_value_hint() made on it.                                            *)
(***************************************************************************)
EntryKinds == {"f32", "u32"}
\* the values of the Option<f32> fields and of the Option<u32> fields
FieldVals(kind) ==
    IF kind = "f32" THEN {NoneF} \cup {SomeF(x) : x \in FiniteVals}
    ELSE {NoneV} \cup {SomeV(n) : n \in 0..MaxVal}

\* the entry between two calls
HintEntry(kind, max_value_hint, threshold_highlight) ==
    [ op |-> "entry", kind |-> kind, max_value_hint |-> max_value_hint,
      threshold_highlight |-> threshold_highlight ]
\* the entry after max_value_hint() returned result
HintCalled(kind, max_value_hint, threshold_highlight, result) ==
    [ op |-> "max_value_hint", kind |-> kind, max_value_hint |-> max_value_hint,
      threshold_highlight |-> threshold_highlight, result |-> result ]

\* an entry built by struct literal: any gradient constructor, any field values
HInit ==
    /\ stops \in {GradientNew, GradientSingle(Srgb("red"))}
    /\ lookup = NoLookup
    /\ \E kind \in EntryKinds :
          \E h \in FieldVals(kind), t \in FieldVals(kind) :
             call = HintEntry(kind, h, t)

\* entry.color_gradient.add_stop(value, color)
HintAddStop(value) ==
    /\ \E s2 \in AddStop(stops, value, Srgb("green")) :
          /\ Len(s2) <= MaxStops
          /\ stops' = s2
    /\ call' = HintEntry(call.kind, call.max_value_hint, call.threshold_highlight)
    /\ UNCHANGED <<lookup, uvars>>

\* *entry.color_gradient.max_stop_mut().unwrap().0 = value
HintMaxStopMut(value) ==
    /\ Len(stops) > 0
    /\ stops' = WriteStop(stops, Len(stops), value, stops[Len(stops)].c)
    /\ call' = HintEntry(call.kind, call.max_value_hint, call.threshold_highlight)
    /\ UNCHANGED <<lookup, uvars>>

\* entry.max_value_hint()
HintMaxValueHint ==
    /\ LET entry == [ color_gradient |-> stops,
                      threshold_highlight |-> call.threshold_highlight,
                      max_value_hint |-> call.max_value_hint ]
           result == IF call.kind = "f32" THEN FloatMaxValueHint(entry)
                     ELSE EntityCountMaxValueHint(entry)
       IN  call' = HintCalled(call.kind, call.max_value_hint,
                              call.threshold_highlight, result)
    /\ UNCHANGED <<stops, lookup, uvars>>

NextHint ==
    \/ \E v \in FloatVals : HintAddStop(v)
    \/ \E v \in FloatVals : HintMaxStopMut(v)
    \/ HintMaxValueHint

(***************************************************************************)
(* One PerfUiWidgetBar alone: its bar_color gradient (stops), the hints of *)
(* its entry, its fill direction and the offsets of its inner bar (call),  *)
(* and the update calls made on it.                                        *)
(***************************************************************************)
FillDirections == {"Left", "Right", "Center"}
\* what min_value_hint / max_value_hint of an entry return, as f64
HintVals == {NoneF} \cup {SomeF(x) : x \in FiniteVals}
\* what update_value of an entry returns, as f64
BarFetchVals == {NoneF, SomeF(Num(5500))} \cup {SomeF(x) : x \in FiniteVals}

\* the widget and its inner bar between two update calls
BarState(h_min, h_max, dir, offsets) ==
    [ op |-> "bar", h_min |-> h_min, h_max |-> h_max, fill_direction |-> dir,
      left |-> offsets.left, right |-> offsets.right ]
\* the widget and its inner bar after update: the fetched value and the result
\* of get_range in that call, and whether the inner bar was drawn filled before
BarUpdated(h_min, h_max, dir, offsets, value, range, wasFilled) ==
    [ op |-> "update", h_min |-> h_min, h_max |-> h_max, fill_direction |-> dir,
      left |-> offsets.left, right |-> offsets.right,
      value |-> value, range |-> range, wasFilled |-> wasFilled ]

BarOffsets(c) == [left |-> c.left, right |-> c.right]

\* PerfUiWidgetBar::new(entry) and PerfUiWidgetBar::spawn, then any bar_color
\* the user stores in the pub field
BInit ==
    /\ stops \in {GradientNew, GradientSingle(Srgb("grey50")),
                  NewPresetGyr(Num(100), Num(1000), Num(10000)).stops}
    /\ lookup = NoLookup
    /\ \E dir \in FillDirections :
          \/ \E h_min \in HintVals, h_max \in HintVals :
                call = BarState(h_min, h_max, dir, EmptyOffsets)
          \/ call = BarState(HintAsF64(EntityCountMinValueHint(EntityCountDefault)),
                             HintAsF64(EntityCountMaxValueHint(EntityCountDefault)),
                             dir, EmptyOffsets)

\* bar.bar_color.add_stop(value, color); the write marks the component changed
\* and setup_perf_ui_widget spawns its node anew before the next update
BarAddStop(value) ==
    /\ \E s2 \in AddStop(stops, value, Srgb("grey50")) :
          /\ Len(s2) <= MaxStops
          /\ stops' = s2
    /\ call' = BarState(call.h_min, call.h_max, call.fill_direction, EmptyOffsets)
    /\ UNCHANGED <<lookup, uvars>>

\* *bar.bar_color.min_stop_mut().unwrap().0 = value, and the node spawned anew
BarMinStopMut(value) ==
    /\ Len(stops) > 0
    /\ stops' = WriteStop(stops, 1, value, stops[1].c)
    /\ call' = BarState(call.h_min, call.h_max, call.fill_direction, EmptyOffsets)
    /\ UNCHANGED <<lookup, uvars>>

\* PerfUiWidgetBar::update with the fetch result value: get_range and the
\* offsets of the inner bar
BarUpdate(value) ==
    /\ LET range == GetRange(stops, call.h_min, call.h_max)
           offsets == InnerBarUpdate(BarOffsets(call), call.fill_direction, value, range)
       IN  call' = BarUpdated(call.h_min, call.h_max, call.fill_direction, offsets,
                              value, range, BarOffsets(call) # EmptyOffsets)
    /\ UNCHANGED <<stops, lookup, uvars>>

NextBar ==
    \/ \E v \in FloatVals : BarAddStop(v)
    \/ \E v \in FloatVals : BarMinStopMut(v)
    \/ \E f \in BarFetchVals : BarUpdate(f)

(***************************************************************************)
(* The formatting helpers of utils.rs.  A string is a sequence of          *)
(* characters.  An f64 is a decimal number with DecPlaces places after the *)
(* point (c / DecUnit), NaN or an infinity: as in f64, a term below the    *)
(* resolution of the larger operand is absorbed by a subtraction.          *)
(***************************************************************************)
DecPlaces == 2    \* decimal places a modelled f64 keeps

RECURSIVE Pow10(_)
Pow10(k) == IF k <= 0 THEN 1 ELSE 10 * Pow10(k - 1)
DecUnit == Pow10(DecPlaces)

Dec(c) == [k |-> "dec", c |-> c]
DecNaN == [k |-> "nan", c |-> 0]
DecInf == [k |-> "inf", c |-> 0]
DecNegInf == [k |-> "ninf", c |-> 0]
DecWhole(n) == Dec(n * DecUnit)

\* a >= b on f64
DecGe(a, b) ==
    CASE a.k = "nan" \/ b.k = "nan" -> FALSE
      [] a.k = "inf" \/ b.k = "ninf" -> TRUE
      [] a.k = "ninf" \/ b.k = "inf" -> FALSE
      [] OTHER -> a.c >= b.c

\* 10.0f64.powi(digits) - 10.0f64.powi(-precision), rounded to an f64
DecMaxBelow(digits, precision) ==
    IF precision <= DecPlaces
    THEN Dec(Pow10(digits) * DecUnit - Pow10(DecPlaces - precision))
    ELSE DecWhole(Pow10(digits))

RECURSIVE UIntDigits(_)
UIntDigits(n) ==
    IF n < 10 THEN <<Digits[n + 1]>>
    ELSE UIntDigits(n \div 10) \o <<Digits[(n % 10) + 1]>>

RECURSIVE Repeat(_, _)
Repeat(ch, n) == IF n <= 0 THEN <<>> ELSE <<ch>> \o Repeat(ch, n - 1)

\* format!("{:fill>width$}", s): right aligned, filled on the left
PadLeft(s, width, fill) == Repeat(fill, width - Len(s)) \o s

\* n / q rounded to the nearest whole number, a tie to the even one
RoundHalfEven(n, q) ==
    LET f == n \div q
        r == n % q
    IN  IF 2 * r > q \/ (2 * r = q /\ f % 2 = 1) THEN f + 1 ELSE f

\* format!("{:.prec$}", x) for a finite x = c / DecUnit >= 0
FormatFixed(c, precision) ==
    LET places == IF precision >= DecPlaces THEN DecPlaces ELSE precision
        shown == IF precision >= DecPlaces THEN c
                 ELSE RoundHalfEven(c, Pow10(DecPlaces - precision))
        whole == shown \div Pow10(places)
        frac == shown % Pow10(places)
    IN  UIntDigits(whole)
        \o (IF precision = 0 THEN <<>> ELSE <<".">>)
        \o (IF places = 0 THEN <<>> ELSE PadLeft(UIntDigits(frac), places, "0"))
        \o Repeat("0", precision - places)

\* format!("{number:.prec$}", number = value, prec = precision)
FormatF64(value, precision) ==
    CASE value.k = "nan" -> <<"N", "a", "N">>
      [] value.k = "inf" -> <<"i", "n", "f">>
      [] value.k = "ninf" -> <<"-", "i", "n", "f">>
      [] OTHER -> (IF value.c < 0 THEN <<"-">> ELSE <<>>)
                  \o FormatFixed(Abs(value.c), precision)

\* format_pretty_float
FormatPrettyFloat(digits, precision, value) ==
    LET d == IF digits >= 1 THEN digits ELSE 1
        max == DecWhole(Pow10(d))
        v == IF DecGe(value, max) THEN DecMaxBelow(d, precision) ELSE value
    IN  FormatF64(v, precision)

\* i64 arithmetic, the width scaled down to IntBits bits: a result out of range
\* is an overflow, which panics in a build with overflow checks and wraps
\* around in a build without
IntBits == 8
RECURSIVE Pow2(_)
Pow2(k) == IF k <= 0 THEN 1 ELSE 2 * Pow2(k - 1)
IntMin == -Pow2(IntBits - 1)
IntMax64 == Pow2(IntBits - 1) - 1
Overflows(x) == x < IntMin \/ x > IntMax64
Wrap(x) == ((x - IntMin) % Pow2(IntBits)) + IntMin

\* 10i64.pow(exp), wrapped
RECURSIVE WrapPow10(_)
WrapPow10(exp) == IF exp = 0 THEN 1 ELSE Wrap(10 * WrapPow10(exp - 1))
\* 10i64.pow(exp) overflows
RECURSIVE Pow10Overflows(_)
Pow10Overflows(exp) ==
    exp > 0 /\ (Pow10Overflows(exp - 1) \/ Overflows(10 * WrapPow10(exp - 1)))

FmtOk(s) == [tag |-> "ok", s |-> s]
FmtPanic == [tag |-> "panic", s |-> <<>>]

\* format!("{number}", number = value) for an integer
FormatInt(n) == IF n < 0 THEN <<"-">> \o UIntDigits(-n) ELSE UIntDigits(n)

\* format_pretty_int; checks: the build has overflow checks
FormatPrettyInt(digits, value, checks) ==
    IF value < 0
    THEN LET d == (IF digits >= 2 THEN digits ELSE 2) - 1
             max == WrapPow10(d)
             neg == -value
             clamped == -(Wrap(max - 1))
         IN  IF checks /\ (Pow10Overflows(d) \/ Overflows(neg)) THEN FmtPanic
             ELSE IF Wrap(neg) >= max
                  THEN IF checks /\ (Overflows(max - 1) \/ Overflows(clamped))
                       THEN FmtPanic
                       ELSE FmtOk(FormatInt(Wrap(clamped)))
                  ELSE FmtOk(FormatInt(value))
    ELSE LET d == IF digits >= 1 THEN digits ELSE 1
             max == WrapPow10(d)
         IN  IF checks /\ Pow10Overflows(d) THEN FmtPanic
             ELSE IF value >= max
                  THEN IF checks /\ Overflows(max - 1) THEN FmtPanic
                       ELSE FmtOk(FormatInt(Wrap(max - 1)))
                  ELSE FmtOk(FormatInt(value))

\* format_pretty_time_hms choosing its form by h and m as passed
FormatPrettyTimeHmsUnsanitized(precision, h, m, s, nanos) ==
    LET hrs == h % 100
        mins == m % 60
        secs == s % 60
        frac == nanos \div Pow10(9 - (IF precision < 9 THEN precision ELSE 9))
        fraction == IF precision > 0
                    THEN <<".">> \o PadLeft(UIntDigits(frac), precision, "0")
                    ELSE <<>>
    IN  IF h > 0
        THEN PadLeft(UIntDigits(hrs), 2, " ") \o <<":">>
             \o PadLeft(UIntDigits(mins), 2, "0") \o <<":">>
             \o PadLeft(UIntDigits(secs), 2, "0") \o fraction
        ELSE IF m > 0
        THEN PadLeft(UIntDigits(mins), 5, " ") \o <<":">>
             \o PadLeft(UIntDigits(secs), 2, "0") \o fraction
        ELSE PadLeft(UIntDigits(secs), 8, " ") \o fraction

\* format_pretty_time_hms
FormatPrettyTimeHms(precision, h, m, s, nanos) ==
    LET hrs == h % 100
        mins == m % 60
        secs == s % 60
        frac == nanos \div Pow10(9 - (IF precision < 9 THEN precision ELSE 9))
        fraction == IF precision > 0
                    THEN <<".">> \o PadLeft(UIntDigits(frac), precision, "0")
                    ELSE <<>>
    IN  IF hrs > 0
        THEN PadLeft(UIntDigits(hrs), 2, " ") \o <<":">>
             \o PadLeft(UIntDigits(mins), 2, "0") \o <<":">>
             \o PadLeft(UIntDigits(secs), 2, "0") \o fraction
        ELSE IF mins > 0
        THEN PadLeft(UIntDigits(mins), 5, " ") \o <<":">>
             \o PadLeft(UIntDigits(secs), 2, "0") \o fraction
        ELSE PadLeft(UIntDigits(secs), 8, " ") \o fraction

\* a std::time::Duration: whole seconds and the nanoseconds below one second
Duration(secs, nanos) == [secs |-> secs, nanos |-> nanos]
MaxTimeSecs == 99 * 3600 + 59 * 60 + 59

\* format_pretty_time clamping from 99:59:59 on
FormatPrettyTimeClampAtMax(precision, value) ==
    IF value.secs >= MaxTimeSecs
    THEN IF precision > 0
         THEN <<"9", "9", ":", "5", "9", ":", "5", "9", ".">> \o Repeat("9", precision)
         ELSE <<"9", "9", ":", "5", "9", ":", "5", "9">>
    ELSE FormatPrettyTimeHms(precision, value.secs \div 3600, value.secs \div 60,
                             value.secs, value.nanos)

\* format_pretty_time
FormatPrettyTime(precision, value) ==
    IF value.secs > MaxTimeSecs
    THEN IF precision > 0
         THEN <<"9", "9", ":", "5", "9", ":", "5", "9", ".">> \o Repeat("9", precision)
         ELSE <<"9", "9", ":", "5", "9", ":", "5", "9">>
    ELSE FormatPrettyTimeHms(precision, value.secs \div 3600, value.secs \div 60,
                             value.secs, value.nanos)

(***************************************************************************)
(* The formatting helpers alone: call holds one call, its arguments and,   *)
(* once the function has returned, its result.                             *)
(***************************************************************************)
MaxDigits == 3       \* digits arguments are 0..MaxDigits
MaxPrecision == 3    \* precision arguments are 0..MaxPrecision, and 9 and 10
MaxExp == 5          \* f64 arguments reach 10^MaxExp in magnitude

DigitArgs == 0..MaxDigits
PrecisionArgs == 0..MaxPrecision
TimePrecisionArgs == PrecisionArgs \cup {9, 10}
F64Args ==
    {DecNaN, DecInf, DecNegInf}
    \cup {Dec(sign * c) : sign \in {1, -1},
                          c \in {0, 5, 15, 25, Pow10(2) * DecUnit - 4, Pow10(2) * DecUnit - 1}
                                \cup {Pow10(e) * DecUnit : e \in 0..MaxExp}}
I64Args == IntMin..IntMax64
HourArgs == {0, 2, 100, 102}
MinuteArgs == {0, 5, 60, 65}
SecondArgs == {0, 3, 45, 60}
NanoArgs == {0, 500000000, 999999999}
DurationArgs ==
    {Duration(secs, nanos) :
        secs \in {0, 45, 303, 7503, MaxTimeSecs - 1, MaxTimeSecs, MaxTimeSecs + 1,
                  Pow10(6)},
        nanos \in NanoArgs}

\* a call that has not returned yet
FmtPending == [tag |-> "pending", s |-> <<>>]

FloatCall(digits, precision, value, result) ==
    [op |-> "format_pretty_float", digits |-> digits, precision |-> precision,
     value |-> value, result |-> result]
IntCall(digits, value, checks, result) ==
    [op |-> "format_pretty_int", digits |-> digits, value |-> value,
     checks |-> checks, result |-> result]
HmsCall(precision, h, m, s, nanos, result) ==
    [op |-> "format_pretty_time_hms", precision |-> precision, h |-> h, m |-> m,
     s |-> s, nanos |-> nanos, result |-> result]
TimeCall(precision, value, result) ==
    [op |-> "format_pretty_time", precision |-> precision, value |-> value,
     result |-> result]

\* a call of one of the four functions with any arguments of their types
FInit ==
    /\ stops = GradientNew
    /\ lookup = NoLookup
    /\ \/ \E d \in DigitArgs, p \in PrecisionArgs, v \in F64Args :
             call = FloatCall(d, p, v, FmtPending)
       \/ \E d \in DigitArgs, v \in I64Args, checks \in BOOLEAN :
             call = IntCall(d, v, checks, FmtPending)
       \/ \E p \in TimePrecisionArgs, h \in HourArgs, m \in MinuteArgs,
             s \in SecondArgs, nanos \in NanoArgs :
             call = HmsCall(p, h, m, s, nanos, FmtPending)
       \/ \E p \in TimePrecisionArgs, v \in DurationArgs :
             call = TimeCall(p, v, FmtPending)

Pending(op) == call.op = op /\ call.result = FmtPending

CallFormatPrettyFloat ==
    /\ Pending("format_pretty_float")
    /\ call' = FloatCall(call.digits, call.precision, call.value,
                  FmtOk(FormatPrettyFloat(call.digits, call.precision, call.value)))
    /\ UNCHANGED <<stops, lookup, uvars>>

CallFormatPrettyInt ==
    /\ Pending("format_pretty_int")
    /\ call' = IntCall(call.digits, call.value, call.checks,
                  FormatPrettyInt(call.digits, call.value, call.checks))
    /\ UNCHANGED <<stops, lookup, uvars>>

CallFormatPrettyTimeHms ==
    /\ Pending("format_pretty_time_hms")
    /\ call' = HmsCall(call.precision, call.h, call.m, call.s, call.nanos,
                  FmtOk(FormatPrettyTimeHms(call.precision, call.h, call.m, call.s,
                                            call.nanos)))
    /\ UNCHANGED <<stops, lookup, uvars>>

CallFormatPrettyTime ==
    /\ Pending("format_pretty_time")
    /\ call' = TimeCall(call.precision, call.value,
                  FmtOk(FormatPrettyTime(call.precision, call.value)))
    /\ UNCHANGED <<stops, lookup, uvars>>

NextFormat ==
    \/ CallFormatPrettyFloat
    \/ CallFormatPrettyInt
    \/ CallFormatPrettyTimeHms
    \/ CallFormatPrettyTime

(***************************************************************************)
(* next_sort_key alone: the static NEXT_SORT_KEY and the threads calling   *)
(* the function (call).  The AtomicI32 keeps its width, scaled down to     *)
(* SortKeyBits bits: fetch_add wraps around on overflow.                   *)
(***************************************************************************)
SortKeyBits == 3     \* the width of the modelled AtomicI32
MaxKeyCalls == 9     \* calls of next_sort_key in one run

Threads == {"t1", "t2"}
KeyMin == -Pow2(SortKeyBits - 1)
KeyWrap(x) == ((x - KeyMin) % Pow2(SortKeyBits)) + KeyMin

\* next: NEXT_SORT_KEY; pc, val: where each thread is in its call and the
\* value its fetch_add returned; seen: how many calls had returned when the
\* thread's call began; returned: the calls that returned, in that order
SortKeyState(next, at, val, seen, returned) ==
    [op |-> "next_sort_key", next |-> next, pc |-> at, val |-> val,
     seen |-> seen, returned |-> returned]

\* static NEXT_SORT_KEY: AtomicI32 = AtomicI32::new(1)
SInit ==
    /\ stops = GradientNew
    /\ lookup = NoLookup
    /\ call = SortKeyState(1, [t \in Threads |-> "idle"], [t \in Threads |-> 0],
                           [t \in Threads |-> 0], <<>>)

KeyCallsBegun ==
    Len(call.returned) + Cardinality({t \in Threads : call.pc[t] # "idle"})

\* a thread calls next_sort_key()
KeyInvoke(t) ==
    /\ call.pc[t] = "idle"
    /\ KeyCallsBegun < MaxKeyCalls
    /\ call' = [call EXCEPT !.pc[t] = "called", !.seen[t] = Len(call.returned)]
    /\ UNCHANGED <<stops, lookup, uvars>>

\* NEXT_SORT_KEY.fetch_add(1, Ordering::Relaxed): one atomic read-modify-write
KeyFetchAdd(t) ==
    /\ call.pc[t] = "called"
    /\ call' = [call EXCEPT !.pc[t] = "fetched", !.val[t] = call.next,
                            !.next = KeyWrap(call.next + 1)]
    /\ UNCHANGED <<stops, lookup, uvars>>

\* the call returns the value fetch_add gave
KeyReturn(t) ==
    /\ call.pc[t] = "fetched"
    /\ call' = [call EXCEPT !.pc[t] = "idle",
                            !.returned = Append(call.returned,
                                [t |-> t, key |-> call.val[t], seen |-> call.seen[t]])]
    /\ UNCHANGED <<stops, lookup, uvars>>

NextSortKey ==
    \/ \E t \in Threads : KeyInvoke(t)
    \/ \E t \in Threads : KeyFetchAdd(t)
    \/ \E t \in Threads : KeyReturn(t)

(***************************************************************************)
(* Presentation nodes.  A node record stands for the widget's toplevel     *)
(* entity (PerfUiWidgetMarker<W>, PerfUiSortKey, BackgroundColor) together *)
(* with the text entity and, for a bar, the inner bar entity below it.     *)
(***************************************************************************)
Node(root, w, key, hasText, text, color, font, bg, offsets, barcolor) ==
    [ root |-> root, w |-> w, key |-> key, hasText |-> hasText,
      text |-> text, color |-> color, font |-> font, bg |-> bg,
      left |-> offsets.left, right |-> offsets.right, barcolor |-> barcolor ]

\* a child of the root that is no widget node and carries no PerfUiSortKey
UserChild(root) ==
    Node(root, "user", NoneV, FALSE, <<>>, ColorNONE, "", ColorNONE, EmptyOffsets, ColorNONE)

\* PerfUiWidget::spawn of the plain text widget, with the marker and sort key
\* that setup_perf_ui_widget inserts
SpawnPlain(r, cfg, root) ==
    Node(r, "text", SomeV(cfg.entry.sort_key), TRUE,
         root.text_err, root.err_color, root.font_value,
         root.inner_background_color, EmptyOffsets, ColorNONE)

\* PerfUiWidget::spawn of PerfUiWidgetBar
SpawnBar(r, cfg, root) ==
    IF cfg.text_position # "NoText"
    THEN Node(r, "bar", SomeV(cfg.entry.sort_key), TRUE,
              root.text_err,
              IF cfg.text_color_override.some THEN cfg.text_color_override.v
              ELSE root.err_color,
              root.font_value,
              root.inner_background_color, EmptyOffsets, ColorNONE)
    ELSE Node(r, "bar", SomeV(cfg.entry.sort_key), FALSE,
              <<>>, ColorNONE, "",
              root.inner_background_color, EmptyOffsets, ColorNONE)

SpawnWidget(r, w, cfg, root) ==
    IF w = "text" THEN SpawnPlain(r, cfg, root) ELSE SpawnBar(r, cfg, root)

\* A faulty variant, which C2 must reject: the None branch writes default_value_color
UpdatePlainNoErrColor(ns, e_widget, cfg, root, f) ==
    LET entry == cfg.entry
        entry_highlight == f.some /\ ValueHighlight(entry, f.v)
        text == IF f.some THEN PadToWidth(FormatValue(entry, f.v), entry.width_hint)
                ELSE PadToWidth(root.text_err, entry.width_hint)
        color == IF f.some /\ ValueColor(entry, f.v).some THEN ValueColor(entry, f.v).v
                 ELSE root.default_value_color
        font == IF entry_highlight THEN root.font_highlight ELSE root.font_value
        bg == IF entry_highlight THEN root.inner_background_color_highlight
              ELSE root.inner_background_color
    IN  [ m \in DOMAIN ns |->
            IF ns[m].w # "text" THEN ns[m]
            ELSE [ns[m] EXCEPT !.text = text, !.color = color, !.font = font,
                               !.bg = IF m = e_widget THEN bg ELSE @] ]

\* impl PerfUiWidget<E> for E :: update, called for widget node e_widget with
\* fetch result f: every Text marked SimpleWidgetTextMarker<E> is written, and
\* the background of e_widget.  (update_value is called once per Text
\* visited; f is what self.update_value returns in this call, every time.)
UpdatePlain(ns, e_widget, cfg, root, f) ==
    LET entry == cfg.entry
        entry_highlight == f.some /\ ValueHighlight(entry, f.v)
        text == IF f.some THEN PadToWidth(FormatValue(entry, f.v), entry.width_hint)
                ELSE PadToWidth(root.text_err, entry.width_hint)
        color == IF f.some
                 THEN IF ValueColor(entry, f.v).some THEN ValueColor(entry, f.v).v
                      ELSE root.default_value_color
                 ELSE root.err_color
        font == IF entry_highlight THEN root.font_highlight ELSE root.font_value
        bg == IF entry_highlight THEN root.inner_background_color_highlight
              ELSE root.inner_background_color
    IN  [ m \in DOMAIN ns |->
            IF ns[m].w # "text" THEN ns[m]
            ELSE [ns[m] EXCEPT !.text = text, !.color = color, !.font = font,
                               !.bg = IF m = e_widget THEN bg ELSE @] ]

\* A faulty variant, which C29 must reject: without a value the text is left
\* as the previous update wrote it
UpdateBarKeepsTextOnNone(node, cfg, root, f) ==
    LET entry == cfg.entry
        entry_highlight == f.some /\ ValueHighlight(entry, f.v)
        bg == IF entry_highlight THEN root.inner_background_color_highlight
              ELSE root.inner_background_color
        range == GetRange(cfg.bar_color, entry.min_hint, entry.max_hint)
        offsets == InnerBarUpdate([left |-> node.left, right |-> node.right],
                                  cfg.fill_direction,
                                  IF f.some THEN SomeF(Num(f.v)) ELSE NoneF, range)
        text == IF f.some THEN Trim(FormatValue(entry, f.v)) ELSE node.text
        font == IF entry_highlight THEN root.font_highlight ELSE root.font_value
        color == IF cfg.text_color_override.some THEN node.color
                 ELSE IF f.some
                      THEN IF ValueColor(entry, f.v).some THEN ValueColor(entry, f.v).v
                           ELSE root.default_value_color
                      ELSE root.err_color
        barcolors == IF f.some
                     THEN { IF r.tag = "some" THEN r.color ELSE ColorNONE :
                              r \in {x \in GetColorForValue(cfg.bar_color, Num(f.v)) :
                                        x.tag # "panic"} }
                     ELSE {node.barcolor}
    IN  { [node EXCEPT !.bg = bg, !.left = offsets.left, !.right = offsets.right,
                       !.barcolor = bc,
                       !.text = IF node.hasText THEN text ELSE @,
                       !.font = IF node.hasText THEN font ELSE @,
                       !.color = IF node.hasText THEN color ELSE @]
          : bc \in barcolors }

\* A faulty variant, which C3 must reject: the row background ignores value_highlight
UpdateBarNoHighlight(node, cfg, root, f) ==
    LET entry == cfg.entry
        entry_highlight == f.some /\ ValueHighlight(entry, f.v)
        range == GetRange(cfg.bar_color, entry.min_hint, entry.max_hint)
        offsets == InnerBarUpdate([left |-> node.left, right |-> node.right],
                                  cfg.fill_direction,
                                  IF f.some THEN SomeF(Num(f.v)) ELSE NoneF, range)
        text == IF f.some THEN Trim(FormatValue(entry, f.v)) ELSE Trim(root.text_err)
        font == IF entry_highlight THEN root.font_highlight ELSE root.font_value
        color == IF cfg.text_color_override.some THEN node.color
                 ELSE IF f.some
                      THEN IF ValueColor(entry, f.v).some THEN ValueColor(entry, f.v).v
                           ELSE root.default_value_color
                      ELSE root.err_color
    IN  { [node EXCEPT !.bg = root.inner_background_color,
                       !.left = offsets.left, !.right = offsets.right,
                       !.text = IF node.hasText THEN text ELSE @,
                       !.font = IF node.hasText THEN font ELSE @,
                       !.color = IF node.hasText THEN color ELSE @] }

\* PerfUiWidgetBar::update for one widget node and fetch result f: the nodes
\* the call can leave behind
UpdateBar(node, cfg, root, f) ==
    LET entry == cfg.entry
        entry_highlight == f.some /\ ValueHighlight(entry, f.v)
        bg == IF entry_highlight THEN root.inner_background_color_highlight
              ELSE root.inner_background_color
        range == GetRange(cfg.bar_color, entry.min_hint, entry.max_hint)
        offsets == InnerBarUpdate([left |-> node.left, right |-> node.right],
                                  cfg.fill_direction,
                                  IF f.some THEN SomeF(Num(f.v)) ELSE NoneF, range)
        text == IF f.some THEN Trim(FormatValue(entry, f.v)) ELSE Trim(root.text_err)
        font == IF entry_highlight THEN root.font_highlight ELSE root.font_value
        color == IF cfg.text_color_override.some THEN node.color
                 ELSE IF f.some
                      THEN IF ValueColor(entry, f.v).some THEN ValueColor(entry, f.v).v
                           ELSE root.default_value_color
                      ELSE root.err_color
        barcolors == IF f.some
                     THEN { IF r.tag = "some" THEN r.color ELSE ColorNONE :
                              r \in {x \in GetColorForValue(cfg.bar_color, Num(f.v)) :
                                        x.tag # "panic"} }
                     ELSE {node.barcolor}
    IN  { [node EXCEPT !.bg = bg, !.left = offsets.left, !.right = offsets.right,
                       !.barcolor = bc,
                       !.text = IF node.hasText THEN text ELSE @,
                       !.font = IF node.hasText THEN font ELSE @,
                       !.color = IF node.hasText THEN color ELSE @]
          : bc \in barcolors }

(***************************************************************************)
(* sort_perf_ui_widgets: children.sort_by_key(key or 0), a stable sort.    *)
(***************************************************************************)
SortKeyOf(ns, e) == IF e \in DOMAIN ns /\ ns[e].key.some THEN ns[e].key.v ELSE 0

\* A faulty variant, which C7 must reject: e goes in front of the elements of equal key
InsertByKeyUnstable(ns, sorted, e) ==
    LET before == SelectSeq(sorted, LAMBDA x : SortKeyOf(ns, x) < SortKeyOf(ns, e))
        after == SelectSeq(sorted, LAMBDA x : SortKeyOf(ns, x) >= SortKeyOf(ns, e))
    IN  before \o <<e>> \o after

\* e inserted behind the last element whose key is not greater
RECURSIVE InsertByKey(_, _, _)
InsertByKey(ns, sorted, e) ==
    IF Len(sorted) = 0 THEN <<e>>
    ELSE IF SortKeyOf(ns, sorted[Len(sorted)]) <= SortKeyOf(ns, e) THEN Append(sorted, e)
    ELSE Append(InsertByKey(ns, SubSeq(sorted, 1, Len(sorted) - 1), e), sorted[Len(sorted)])

RECURSIVE SortByKeyFrom(_, _, _)
SortByKeyFrom(ns, sorted, rest) ==
    IF Len(rest) = 0 THEN sorted
    ELSE SortByKeyFrom(ns, InsertByKey(ns, sorted, Head(rest)), Tail(rest))

SortByKey(ns, seq) == SortByKeyFrom(ns, <<>>, seq)

(***************************************************************************)
(* Commands: queued by a system, applied in order at the next sync point.  *)
(***************************************************************************)
RootSeq == <<"r1", "r2">>
Roots == {RootSeq[i] : i \in 1..Len(RootSeq)}
Bindings == Roots \X WTypes

Cmd(op, root, e, node) == [op |-> op, root |-> root, e |-> e, node |-> node]

Without(seq, e) == SelectSeq(seq, LAMBDA x : x # e)
Restrict(f, S) == [x \in S |-> f[x]]

ApplyCmd(world, c) ==
    IF c.op = "remove_children"
    THEN [world EXCEPT
            !.children[c.root] = Without(@, c.e),
            !.chg[c.root] = Len(Without(world.children[c.root], c.e)) > 0]
    ELSE IF c.op = "despawn_recursive"
    THEN IF c.e \notin DOMAIN world.nodes THEN world
         ELSE [world EXCEPT
                 !.nodes = Restrict(@, DOMAIN @ \ {c.e}),
                 !.children = [r \in Roots |-> Without(@[r], c.e)],
                 !.chg = [r \in Roots |->
                            IF c.e \in {world.children[r][i] : i \in 1..Len(world.children[r])}
                            THEN Len(Without(world.children[r], c.e)) > 0
                            ELSE @[r]]]
    ELSE IF c.op = "spawn"
    THEN [world EXCEPT !.nodes = (c.e :> c.node) @@ @]
    ELSE \* push_children
         [world EXCEPT !.children[c.root] = Append(@, c.e), !.chg[c.root] = TRUE]

RECURSIVE ApplyCmds(_, _)
ApplyCmds(world, cmds) ==
    IF Len(cmds) = 0 THEN world
    ELSE ApplyCmds(ApplyCmd(world, Head(cmds)), Tail(cmds))

(***************************************************************************)
(* setup_perf_ui_widget<E, W>: the commands one run queues.                *)
(***************************************************************************)
\* q_widget.iter().find(|(_, marker)| marker.e_root == r)
FindWidget(ns, r, w) ==
    LET found == {n \in DOMAIN ns : ns[n].root = r /\ ns[n].w = w}
    IN  IF found = {} THEN {} ELSE {CHOOSE n \in found : \A m \in found : n <= m}

\* A faulty variant, which C1 must reject: the existing node is left alone
DespawnCmdsNone(ns, r, w) == <<>>

DespawnCmds(ns, r, w) ==
    IF FindWidget(ns, r, w) = {} THEN <<>>
    ELSE LET e == CHOOSE n \in FindWidget(ns, r, w) : TRUE
         IN  << Cmd("remove_children", r, e, UserChild(r)),
                Cmd("despawn_recursive", r, e, UserChild(r)) >>

\* A faulty variant, which C6 must reject: the removal events are not handled
RemovalCmdsNone(ns, w, events) == <<>>

\* for e_removed in removed.read()
RECURSIVE RemovalCmds(_, _, _)
RemovalCmds(ns, w, events) ==
    IF Len(events) = 0 THEN <<>>
    ELSE DespawnCmds(ns, Head(events), w) \o RemovalCmds(ns, w, Tail(events))

\* q_root: Or<(Changed<W>, Changed<PerfUiRoot>)> on entities with PerfUiRoot and W
NeedsRebuild(r, w) == comp[<<r, w>>].some /\ (changed[<<r, w>>] \/ rootChanged[r])

\* for (e_root, root, widget) in &q_root
RECURSIVE RebuildCmds(_, _, _, _)
RebuildCmds(ns, w, roots, id) ==
    IF Len(roots) = 0 THEN <<>>
    ELSE LET r == Head(roots)
         IN  IF ~NeedsRebuild(r, w) THEN RebuildCmds(ns, w, Tail(roots), id)
             ELSE DespawnCmds(ns, r, w)
                  \o << Cmd("spawn", r, id, SpawnWidget(r, w, comp[<<r, w>>].v, rootCfg[r])),
                        Cmd("push_children", r, id, UserChild(r)) >>
                  \o RebuildCmds(ns, w, Tail(roots), id + 1)

SetupCmds(w) ==
    RemovalCmds(nodes, w, removedEv[w]) \o RebuildCmds(nodes, w, RootSeq, nextId)

\* rc_setup_perf_ui_widget
RcSetup(w) ==
    \/ \E r \in Roots : comp[<<r, w>>].some /\ changed[<<r, w>>]
    \/ \E r \in Roots : rootChanged[r]
    \/ Len(removedEv[w]) > 0

(***************************************************************************)
(* The frame loop.  User systems edit the components between frames; a     *)
(* frame runs the setup systems, the sort system and the update systems.   *)
(***************************************************************************)
MaxNodes == 4     \* entity ids handed out in one run
MaxEdits == 3     \* user edits in one run
MaxFrames == 2    \* frames in one run
MaxFetch == 2     \* the values an entry's update_value returns: 1..MaxFetch

FetchVals == {NoneV} \cup {SomeV(v) : v \in 1..MaxFetch}
\* update_value has not been called for the binding in this frame
NoFetch == [some |-> FALSE, v |-> -1]

UInit ==
    /\ rootCfg = [r \in Roots |-> RootDefault]
    /\ comp = [b \in Bindings |-> NoneW]
    /\ changed = [b \in Bindings |-> FALSE]
    /\ rootChanged = [r \in Roots |-> TRUE]
    /\ removedEv = [w \in WTypes |-> <<>>]
    /\ nodes = <<>>
    /\ children = [r \in Roots |-> <<>>]
    /\ childrenChanged = [r \in Roots |-> FALSE]
    /\ nextId = 1
    /\ pc = "user"
    /\ setupTodo = {}
    /\ updTodo = {}
    /\ src = [b \in Bindings |-> NoFetch]
    /\ prevFailed = {}
    /\ edits = 0
    /\ frames = 0

\* the ids the next frame's setup systems will need
PendingSpawns(c, ch, rch) ==
    Cardinality({b \in Bindings : c[b].some /\ (ch[b] \/ rch[b[1]])})

EditGuard ==
    /\ pc = "user"
    /\ edits < MaxEdits

\* commands.entity(root).insert(W { .. })
AddWidget(r, w, cfg) ==
    /\ EditGuard
    /\ ~comp[<<r, w>>].some
    /\ comp' = [comp EXCEPT ![<<r, w>>] = SomeW(cfg)]
    /\ changed' = [changed EXCEPT ![<<r, w>>] = TRUE]
    /\ nextId - 1 + PendingSpawns(comp', changed', rootChanged) <= MaxNodes
    /\ edits' = edits + 1
    /\ UNCHANGED <<gvars, rootCfg, rootChanged, removedEv, nodes, children, childrenChanged,
                   nextId, pc, setupTodo, updTodo, src, prevFailed, frames>>

\* a write through Mut<W>
ChangeWidget(r, w, cfg) ==
    /\ EditGuard
    /\ comp[<<r, w>>].some
    /\ comp' = [comp EXCEPT ![<<r, w>>] = SomeW(cfg)]
    /\ changed' = [changed EXCEPT ![<<r, w>>] = TRUE]
    /\ nextId - 1 + PendingSpawns(comp', changed', rootChanged) <= MaxNodes
    /\ edits' = edits + 1
    /\ UNCHANGED <<gvars, rootCfg, rootChanged, removedEv, nodes, children, childrenChanged,
                   nextId, pc, setupTodo, updTodo, src, prevFailed, frames>>

\* commands.entity(root).remove::<W>()
\* (a user system in Update may also run between the setup and update systems)
RemoveWidget(r, w) ==
    /\ pc \in {"user", "sort"}
    /\ edits < MaxEdits
    /\ comp[<<r, w>>].some
    /\ comp' = [comp EXCEPT ![<<r, w>>] = NoneW]
    /\ changed' = [changed EXCEPT ![<<r, w>>] = FALSE]
    /\ removedEv' = [removedEv EXCEPT ![w] = Append(@, r)]
    /\ edits' = edits + 1
    /\ UNCHANGED <<gvars, rootCfg, rootChanged, nodes, children, childrenChanged,
                   nextId, pc, setupTodo, updTodo, src, prevFailed, frames>>

\* a write through Mut<PerfUiRoot>
ChangeRoot(r, root) ==
    /\ EditGuard
    /\ rootCfg' = [rootCfg EXCEPT ![r] = root]
    /\ rootChanged' = [rootChanged EXCEPT ![r] = TRUE]
    /\ nextId - 1 + PendingSpawns(comp, changed, rootChanged') <= MaxNodes
    /\ edits' = edits + 1
    /\ UNCHANGED <<gvars, comp, changed, removedEv, nodes, children, childrenChanged,
                   nextId, pc, setupTodo, updTodo, src, prevFailed, frames>>

\* the user adds a child of their own (no PerfUiSortKey) below the root
AddUserChild(r) ==
    /\ EditGuard
    /\ nextId + PendingSpawns(comp, changed, rootChanged) <= MaxNodes
    /\ nodes' = (nextId :> UserChild(r)) @@ nodes
    /\ children' = [children EXCEPT ![r] = Append(@, nextId)]
    /\ childrenChanged' = [childrenChanged EXCEPT ![r] = TRUE]
    /\ nextId' = nextId + 1
    /\ edits' = edits + 1
    /\ UNCHANGED <<gvars, rootCfg, comp, changed, rootChanged, removedEv,
                   pc, setupTodo, updTodo, src, prevFailed, frames>>

BeginFrame ==
    /\ pc = "user"
    /\ frames < MaxFrames
    /\ frames' = frames + 1
    /\ pc' = "setup"
    /\ setupTodo' = WTypes
    /\ UNCHANGED <<gvars, edits, rootCfg, comp, changed, rootChanged, removedEv, nodes, children,
                   childrenChanged, nextId, updTodo, src, prevFailed>>

SetupDone(w) ==
    /\ setupTodo' = setupTodo \ {w}
    /\ pc' = IF setupTodo' = {} THEN "sort" ELSE "setup"
    /\ rootChanged' = IF setupTodo' = {} THEN [r \in Roots |-> FALSE] ELSE rootChanged

\* setup_perf_ui_widget<E, W> runs and its commands are applied
SetupWidget(w) ==
    /\ pc = "setup"
    /\ w \in setupTodo
    /\ RcSetup(w)
    /\ LET cmds == SetupCmds(w)
           world == ApplyCmds([nodes |-> nodes, children |-> children,
                               chg |-> childrenChanged], cmds)
       IN  /\ nodes' = world.nodes
           /\ children' = world.children
           /\ childrenChanged' = world.chg
           /\ nextId' = nextId + Cardinality({i \in 1..Len(cmds) : cmds[i].op = "spawn"})
    /\ changed' = [b \in Bindings |-> IF b[2] = w THEN FALSE ELSE changed[b]]
    /\ removedEv' = [removedEv EXCEPT ![w] = <<>>]
    /\ SetupDone(w)
    /\ UNCHANGED <<gvars, rootCfg, comp, updTodo, src, prevFailed, edits, frames>>

\* the run condition is false: the system does not run this frame
SkipSetup(w) ==
    /\ pc = "setup"
    /\ w \in setupTodo
    /\ ~RcSetup(w)
    /\ SetupDone(w)
    /\ UNCHANGED <<gvars, rootCfg, comp, changed, removedEv, nodes, children, childrenChanged,
                   nextId, updTodo, src, prevFailed, edits, frames>>

\* sort_perf_ui_widgets (when rc_sort_perf_ui_widgets holds), then the update
\* systems are due
SortWidgets ==
    /\ pc = "sort"
    /\ children' = [r \in Roots |->
                      IF childrenChanged[r] THEN SortByKey(nodes, children[r])
                      ELSE children[r]]
    /\ childrenChanged' = [r \in Roots |-> FALSE]
    /\ pc' = "update"
    /\ updTodo' = {n \in DOMAIN nodes : nodes[n].w \in WTypes}
    /\ UNCHANGED <<gvars, rootCfg, comp, changed, rootChanged, removedEv, nodes, nextId,
                   setupTodo, src, prevFailed, edits, frames>>

\* update_perf_ui_widget<E, W>: the loop body for one widget node, with the
\* result f of the entry's update_value
\* The update systems of different widget types write disjoint entities and
\* the bar update writes only below its own node: the plain text system is
\* run first (its nodes in any order), then the bar nodes in entity order.
UpdateTurn(e_widget) ==
    \/ nodes[e_widget].w = "text"
    \/ \A m \in updTodo : nodes[m].w = "bar" /\ e_widget <= m

UpdateWidget(e_widget, f) ==
    /\ pc = "update"
    /\ e_widget \in updTodo
    /\ UpdateTurn(e_widget)
    /\ updTodo' = updTodo \ {e_widget}
    /\ LET b == <<nodes[e_widget].root, nodes[e_widget].w>>
       IN  IF ~comp[b].some
           THEN UNCHANGED <<nodes, src>>
           ELSE /\ src' = [src EXCEPT ![b] = f]
                /\ IF b[2] = "text"
                   THEN nodes' = UpdatePlain(nodes, e_widget, comp[b].v, rootCfg[b[1]], f)
                   ELSE \E n2 \in UpdateBar(nodes[e_widget], comp[b].v, rootCfg[b[1]], f) :
                           nodes' = [nodes EXCEPT ![e_widget] = n2]
    /\ UNCHANGED <<gvars, rootCfg, comp, changed, rootChanged, removedEv, children,
                   childrenChanged, nextId, pc, setupTodo, prevFailed, edits, frames>>

EndFrame ==
    /\ pc = "update"
    /\ updTodo = {}
    /\ pc' = "user"
    /\ prevFailed' = {b \in Bindings : src[b] = NoneV}
    /\ src' = [b \in Bindings |-> NoFetch]
    /\ UNCHANGED <<gvars, rootCfg, comp, changed, rootChanged, removedEv, nodes, children,
                   childrenChanged, nextId, setupTodo, updTodo, edits, frames>>

Next ==
    \/ \E r \in Roots, w \in WTypes : \E cfg \in CfgsOf(w) : AddWidget(r, w, cfg)
    \/ \E r \in Roots, w \in WTypes : \E cfg \in CfgsOf(w) : ChangeWidget(r, w, cfg)
    \/ \E r \in Roots, w \in WTypes : RemoveWidget(r, w)
    \/ \E r \in Roots, root \in RootCfgs : ChangeRoot(r, root)
    \/ \E r \in Roots : AddUserChild(r)
    \/ BeginFrame
    \/ \E w \in WTypes : SetupWidget(w)
    \/ \E w \in WTypes : SkipSetup(w)
    \/ SortWidgets
    \/ \E n \in 1..MaxNodes, f \in FetchVals : UpdateWidget(n, f)
    \/ EndFrame

Init == GInitNew /\ UInit

Spec == Init /\ [][Next]_vars

\* the gradient alone: a gradient built from new() by add_stop and its wrappers
InitAddStop == GInitNew /\ UInit
SpecAddStop == InitAddStop /\ [][NextAddStop]_vars

\* the gradient alone: every constructor and every mutating method
InitGradient == GInitAny /\ UInit
SpecGradient == InitGradient /\ [][NextGradient]_vars

\* the preset constructors alone
InitPreset == GInitNew /\ UInit
SpecPreset == InitPreset /\ [][NextPreset]_vars

\* one bar widget alone
InitBar == BInit /\ UInit
SpecBar == InitBar /\ [][NextBar]_vars

\* one predefined entry alone
InitHint == HInit /\ UInit
SpecHint == InitHint /\ [][NextHint]_vars

\* the formatting helpers alone
InitFormat == FInit /\ UInit
SpecFormat == InitFormat /\ [][NextFormat]_vars

\* next_sort_key alone
InitSortKey == SInit /\ UInit
SpecSortKey == InitSortKey /\ [][NextSortKey]_vars

(***************************************************************************)
(* Claims about the presentation nodes.                                    *)
(***************************************************************************)
BindingOf(node) == <<node.root, node.w>>
NodesOf(ns, r, w) == {n \in DOMAIN ns : ns[n].root = r /\ ns[n].w = w}
ChildSet(ch, r) == {ch[r][i] : i \in 1..Len(ch[r])}
WidgetNodes == {n \in DOMAIN nodes : nodes[n].w \in WTypes}

\* this step is a run of setup_perf_ui_widget<W> with its commands applied
SetupRan(w) == pc = "setup" /\ w \in setupTodo /\ w \notin setupTodo' /\ RcSetup(w)

\* this step is the call of W::update for widget node n
Updated(n) ==
    /\ pc = "update"
    /\ n \in updTodo
    /\ n \notin updTodo'
    /\ comp[BindingOf(nodes[n])].some

\* node n has been updated in the running frame
UpdatedThisFrame(n) ==
    /\ pc = "update"
    /\ n \in WidgetNodes
    /\ n \notin updTodo
    /\ comp[BindingOf(nodes[n])].some

\* C1: after a run of setup_perf_ui_widget<W> every root that carries W has
\* exactly one node marked for it, a child of the root; where W or the root
\* was added or changed since the previous run that node is a new entity and
\* the node that existed before is gone; elsewhere the node is left untouched.
C1_SetupLeavesOneFreshNode ==
    [][\A w \in WTypes : SetupRan(w) =>
          \A r \in Roots : comp[<<r, w>>].some =>
             LET before == NodesOf(nodes, r, w)
                 after == NodesOf(nodes', r, w)
             IN  /\ Cardinality(after) = 1
                 /\ after \subseteq ChildSet(children', r)
                 /\ NeedsRebuild(r, w) =>
                       /\ after \cap DOMAIN nodes = {}
                       /\ before \cap DOMAIN nodes' = {}
                       /\ before \cap ChildSet(children', r) = {}
                 /\ ~NeedsRebuild(r, w) =>
                       /\ after = before
                       /\ \A n \in after : nodes'[n] = nodes[n]]_vars

\* a node was added, then rebuilt after a change of W or of the root: the
\* first entity is gone and the second one is the binding's node
C1_Witness ==
    /\ pc = "sort"
    /\ edits = 2
    /\ 1 \notin DOMAIN nodes
    /\ 2 \in WidgetNodes
    /\ \A w \in WTypes : removedEv[w] = <<>>
    /\ \E b \in Bindings : comp[b].some

\* what an update with a None fetch leaves on a node
ShowsPlaceholder(node, cfg, root) ==
    /\ node.bg = root.inner_background_color
    /\ node.hasText = (cfg.text_position # "NoText")
    /\ node.hasText =>
          /\ node.text = IF cfg.text_position = "Plain"
                         THEN PadToWidth(root.text_err, cfg.entry.width_hint)
                         ELSE Trim(root.text_err)
          /\ node.font = root.font_value
          /\ node.color = IF cfg.text_color_override.some
                          THEN cfg.text_color_override.v
                          ELSE root.err_color

\* what an update with a fetch of Some(v) leaves on a node
ShowsValue(node, cfg, root, v) ==
    /\ node.bg = IF ValueHighlight(cfg.entry, v)
                 THEN root.inner_background_color_highlight
                 ELSE root.inner_background_color
    /\ node.hasText = (cfg.text_position # "NoText")
    /\ node.hasText =>
          /\ node.text = IF cfg.text_position = "Plain"
                         THEN PadToWidth(FormatValue(cfg.entry, v), cfg.entry.width_hint)
                         ELSE Trim(FormatValue(cfg.entry, v))
          /\ node.font = IF ValueHighlight(cfg.entry, v)
                         THEN root.font_highlight ELSE root.font_value
          /\ node.color = IF cfg.text_color_override.some
                          THEN cfg.text_color_override.v
                          ELSE IF ValueColor(cfg.entry, v).some
                               THEN ValueColor(cfg.entry, v).v
                               ELSE root.default_value_color

\* C2 (as stated): an update whose fetch is None leaves inner_background_color
\* on the node and text_err (compared up to surrounding blanks), err_color and
\* font_value on its text, for the plain text widget and for the bar.
C2_NoneShowsTextErrAndErrColor ==
    [][\A n \in DOMAIN nodes :
          (Updated(n) /\ src'[BindingOf(nodes[n])] = NoneV) =>
             LET root == rootCfg[nodes[n].root]
             IN  /\ nodes'[n].bg = root.inner_background_color
                 /\ nodes'[n].hasText =>
                       /\ Trim(nodes'[n].text) = Trim(root.text_err)
                       /\ nodes'[n].color = root.err_color
                       /\ nodes'[n].font = root.font_value]_vars

\* C2 (amended): an update whose fetch is None leaves inner_background_color
\* on the node and, where the widget has a text, font_value, the text
\* text_err right-aligned to width_hint (plain text widget) or trimmed (bar),
\* and err_color unless the bar has a text_color_override, which stays.
C2_NoneShowsPlaceholder ==
    [][\A n \in DOMAIN nodes :
          (Updated(n) /\ src'[BindingOf(nodes[n])] = NoneV) =>
             ShowsPlaceholder(nodes'[n], comp[BindingOf(nodes[n])].v,
                              rootCfg[nodes[n].root])]_vars

\* in the second of two frames whose fetch is None: a plain text node and a
\* bar with a text_color_override have been updated
C2_Witness ==
    /\ frames = 2
    /\ \E n \in WidgetNodes :
          /\ UpdatedThisFrame(n)
          /\ nodes[n].w = "text"
          /\ src[BindingOf(nodes[n])] = NoneV
          /\ BindingOf(nodes[n]) \in prevFailed
    /\ \E n \in WidgetNodes :
          /\ UpdatedThisFrame(n)
          /\ comp[BindingOf(nodes[n])].v.text_color_override.some
          /\ src[BindingOf(nodes[n])] = NoneV
          /\ BindingOf(nodes[n]) \in prevFailed

\* C3 (as stated): an update whose fetch is Some(v) leaves format_value(v) as
\* the text (compared up to surrounding blanks), value_color(v) or else
\* default_value_color as its color, and font_highlight with the highlight
\* background exactly when value_highlight(v), font_value with the normal
\* background otherwise.
C3_SomeShowsFormatValueAndValueColor ==
    [][\A n \in DOMAIN nodes :
          (Updated(n) /\ src'[BindingOf(nodes[n])].some) =>
             LET root == rootCfg[nodes[n].root]
                 entry == comp[BindingOf(nodes[n])].v.entry
                 v == src'[BindingOf(nodes[n])].v
             IN  /\ nodes'[n].bg = IF ValueHighlight(entry, v)
                                   THEN root.inner_background_color_highlight
                                   ELSE root.inner_background_color
                 /\ nodes'[n].hasText =>
                       /\ Trim(nodes'[n].text) = Trim(FormatValue(entry, v))
                       /\ nodes'[n].color = IF ValueColor(entry, v).some
                                            THEN ValueColor(entry, v).v
                                            ELSE root.default_value_color
                       /\ nodes'[n].font = IF ValueHighlight(entry, v)
                                           THEN root.font_highlight
                                           ELSE root.font_value]_vars

\* C3 (amended): an update whose fetch is Some(v) leaves on the node the
\* highlight background exactly when value_highlight(v) and, where the widget
\* has a text, font_highlight exactly when value_highlight(v), the text
\* format_value(v) right-aligned to width_hint (plain text widget) or trimmed
\* (bar), and the color value_color(v) or else default_value_color, unless the
\* bar has a text_color_override, which stays.
C3_SomeShowsValue ==
    [][\A n \in DOMAIN nodes :
          (Updated(n) /\ src'[BindingOf(nodes[n])].some) =>
             ShowsValue(nodes'[n], comp[BindingOf(nodes[n])].v,
                        rootCfg[nodes[n].root], src'[BindingOf(nodes[n])].v)]_vars

\* a highlighted value has been pushed to a bar with a text, and a value to a
\* plain text widget whose entry colors it by a gradient
C3_Witness ==
    /\ \E n \in WidgetNodes :
          /\ UpdatedThisFrame(n)
          /\ nodes[n].w = "bar"
          /\ nodes[n].hasText
          /\ src[BindingOf(nodes[n])].some
          /\ ValueHighlight(comp[BindingOf(nodes[n])].v.entry, src[BindingOf(nodes[n])].v)
    /\ \E n \in WidgetNodes :
          /\ UpdatedThisFrame(n)
          /\ nodes[n].w = "text"
          /\ src[BindingOf(nodes[n])].some
          /\ ValueColor(comp[BindingOf(nodes[n])].v.entry, src[BindingOf(nodes[n])].v).some

\* what a bar update leaves on the inner bar
BarShowsFetch(node, cfg, f) ==
    LET range == GetRange(cfg.bar_color, cfg.entry.min_hint, cfg.entry.max_hint)
        offsets == IF f.some /\ range.some
                   THEN FillOffsets(cfg.fill_direction, FillFraction(Num(f.v), range))
                   ELSE EmptyOffsets
    IN  /\ node.left = offsets.left
        /\ node.right = offsets.right
        /\ f.some =>
              \E c \in GetColorForValue(cfg.bar_color, Num(f.v)) :
                 node.barcolor = IF c.tag = "some" THEN c.color ELSE ColorNONE

\* every attribute of the node is the one an update with fetch f leaves
ShowsFetch(node, cfg, root, f) ==
    /\ IF f.some THEN ShowsValue(node, cfg, root, f.v)
       ELSE ShowsPlaceholder(node, cfg, root)
    /\ node.w = "bar" => BarShowsFetch(node, cfg, f)

\* every update system of the frame has run
EndOfTick == pc = "update" /\ updTodo = {}

\* C4: at the end of a tick every node's text, text color, font, row
\* background and (bar) fill offsets and bar color are the ones its widget
\* computes from one and the same fetched value.
C4_NodeShowsOneFetch ==
    EndOfTick =>
       \A n \in WidgetNodes :
          comp[BindingOf(nodes[n])].some =>
             \E f \in FetchVals :
                ShowsFetch(nodes[n], comp[BindingOf(nodes[n])].v,
                           rootCfg[nodes[n].root], f)

\* C5: a binding whose fetch was None in the previous tick and is Some(v) in
\* this tick shows, at the end of this tick, v's text, color and highlight
\* state.
C5_ValueShownAfterFailedTick ==
    EndOfTick =>
       \A n \in WidgetNodes :
          ( /\ comp[BindingOf(nodes[n])].some
            /\ BindingOf(nodes[n]) \in prevFailed
            /\ src[BindingOf(nodes[n])].some ) =>
             ShowsValue(nodes[n], comp[BindingOf(nodes[n])].v,
                        rootCfg[nodes[n].root], src[BindingOf(nodes[n])].v)

\* C6: a run of setup_perf_ui_widget<W> leaves no node for a root without W,
\* and the node such a root had is no child of it any more; from then on, as
\* long as W is not attached anew, the binding has no node and update_value
\* is not called for it.
C6_RemovalTearsDown ==
    [][ /\ \A w \in WTypes : SetupRan(w) =>
              \A r \in Roots : ~comp[<<r, w>>].some =>
                 /\ NodesOf(nodes', r, w) = {}
                 /\ NodesOf(nodes, r, w) \cap ChildSet(children', r) = {}
        /\ \A b \in Bindings :
              ( /\ ~comp[b].some
                /\ NodesOf(nodes, b[1], b[2]) = {}
                /\ ~comp'[b].some ) =>
                 /\ NodesOf(nodes', b[1], b[2]) = {}
                 /\ src'[b] = NoFetch ]_vars

\* the only entity ever spawned was a widget node, and setup has despawned it
\* after its W was removed
C6_Witness ==
    /\ pc = "sort"
    /\ nextId = 2
    /\ nodes = <<>>
    /\ \A w \in WTypes : removedEv[w] = <<>>
    /\ \A r \in Roots : children[r] = <<>>

\* the sort key of a child, 0 for a child without PerfUiSortKey
KeyOrZero(ns, e) == IF ns[e].key.some THEN ns[e].key.v ELSE 0
PosIn(seq, e) == CHOOSE i \in 1..Len(seq) : seq[i] = e

\* this step is a run of sort_perf_ui_widgets
SortRan == pc = "sort" /\ pc' = "update"

\* C7: sort_perf_ui_widgets leaves the children of every root whose child
\* list has changed in non-decreasing order of sort key (no key counts as 0),
\* the same children as before, those of equal key in their former order.
C7_SortOrdersChildren ==
    [][SortRan =>
          \A r \in Roots : childrenChanged[r] =>
             LET old == children[r]
                 new == children'[r]
             IN  /\ Len(new) = Len(old)
                 /\ ChildSet(children', r) = ChildSet(children, r)
                 /\ \A i \in 1..(Len(new) - 1) :
                       KeyOrZero(nodes, new[i]) <= KeyOrZero(nodes, new[i + 1])
                 /\ \A i, j \in 1..Len(new) :
                       (i < j /\ KeyOrZero(nodes, new[i]) = KeyOrZero(nodes, new[j]))
                          => PosIn(old, new[i]) < PosIn(old, new[j])]_vars

\* a sorted child list that holds a child without a key, two children of
\* equal key, and a node that was appended last and has moved forward
C7_Witness ==
    /\ pc = "update"
    /\ \E r \in Roots :
          /\ \E i \in 1..Len(children[r]) : nodes[children[r][i]].w = "user"
          /\ \E i \in 1..(Len(children[r]) - 1) : children[r][i] > children[r][i + 1]
          /\ \E i, j \in 1..Len(children[r]) :
                i < j /\ KeyOrZero(nodes, children[r][i]) = KeyOrZero(nodes, children[r][j])

(***************************************************************************)
(* Claims about the range and the fill of the bar.                         *)
(***************************************************************************)
\* the state is the one an update call of the bar has left; stops is the
\* bar_color gradient and call holds the hints the call has read
BarUpdateRan == call.op = "update"

\* C15 (as claimed): with an empty or single-stop bar gradient, get_range is
\* Some((min_hint, max_hint)), exactly the two hints of the entry, when both
\* are present and None when one is missing, whatever the value of the stop.
C15_RangeFallsBackToHints ==
    (BarUpdateRan /\ Len(stops) <= 1) =>
       call.range = IF call.h_min.some /\ call.h_max.some
                    THEN SomeRange(call.h_min.v, call.h_max.v)
                    ELSE NoRange

\* the smaller / the larger of two values that are not NaN
Smaller(a, b) == IF FLe(a, b) THEN a ELSE b
Larger(a, b) == IF FLe(a, b) THEN b ELSE a

\* C16 (as claimed): with a bar gradient whose lowest and highest stop values
\* differ, the minimum of the range is the smaller of the lowest stop and the
\* min hint (the lowest stop when there is no min hint), the maximum is the
\* larger of the highest stop and the max hint (the highest stop when there is
\* no max hint), and the range is not None, as the gradient supplies both bounds.
C16_RangeCombinesBounds ==
    BarUpdateRan =>
       \A lo, hi \in 1..Len(stops) :
          (IsLowest(stops, lo) /\ IsHighest(stops, hi) /\ stops[lo].v # stops[hi].v) =>
             call.range =
                SomeRange(IF call.h_min.some THEN Smaller(stops[lo].v, call.h_min.v)
                          ELSE stops[lo].v,
                          IF call.h_max.some THEN Larger(stops[hi].v, call.h_max.v)
                          ELSE stops[hi].v)

\* C17 (as claimed): whenever get_range returns Some((min, max)), min <= max.
C17_RangeMinAtMostMax ==
    (BarUpdateRan /\ call.range.some) => FLe(call.range.min, call.range.max)

\* the bar wraps a PerfUiEntryEntityCount left at its defaults (max_value_hint
\* unset), its bar gradient has the stops 100, 1000, 10000, and the value
\* fetched in the update call is 5500
EntityCountScenario ==
    /\ BarUpdateRan
    /\ StopValues(stops) = <<Num(100), Num(1000), Num(10000)>>
    /\ call.h_min = HintAsF64(EntityCountMinValueHint(EntityCountDefault))
    /\ call.h_max = HintAsF64(EntityCountMaxValueHint(EntityCountDefault))
    /\ call.value = SomeF(Num(5500))

\* C18 (as claimed): in that scenario the derived range is (100, 10000) and
\* the fill fraction is (5500 - 100) / (10000 - 100) = 6/11, about 0.5455.
C18_EntityCountRangeFromGradient ==
    EntityCountScenario =>
       /\ call.range = SomeRange(Num(100), Num(10000))
       /\ BarOffsets(call) = FillOffsets(call.fill_direction, Frac(6, 11))

\* C18 (amended): in that scenario the derived range is (0, 20000), the
\* entry's min hint 0 and its max hint max(threshold_highlight 20000, highest
\* stop 10000), and the fill fraction is 5500 / 20000 = 11/40 = 0.275.
C18_EntityCountRangeFromHints ==
    EntityCountScenario =>
       /\ call.range = SomeRange(Num(0), Num(20000))
       /\ BarOffsets(call) = FillOffsets(call.fill_direction, Frac(11, 40))

\* C18 witness: the scenario has happened on a bar that fills from the center
C18_Witness == EntityCountScenario /\ call.fill_direction = "Center"

\* a written offset is a share of 100 percent between 0 and 100
InPercentRange(f) == f.k = "num" /\ 0 <= f.num /\ f.num <= f.den

\* C19 (as claimed): for every fetched value v and every derived range
\* (min, max) with min < max, the fill fraction clamp((v - min) / (max - min),
\* 0, 1) lies in [0, 1], is 0 for v <= min and 1 for v >= max, and the offsets
\* written to the inner bar are percentages between 0 and 100.
C19_FillFractionInUnitInterval ==
    ( /\ BarUpdateRan
      /\ call.value.some
      /\ call.range.some
      /\ FLe(call.range.min, call.range.max)
      /\ call.range.min # call.range.max ) =>
       LET fraction == FillFraction(call.value.v, call.range)
       IN  /\ InPercentRange(fraction)
           /\ FLe(call.value.v, call.range.min) => fraction = FracZero
           /\ FLe(call.range.max, call.value.v) => fraction = FracOne
           /\ InPercentRange(call.left)
           /\ InPercentRange(call.right)

\* C20: an update in which get_range returns None or the fetch returns None
\* leaves the inner bar empty (left offset 0 percent, right offset 100
\* percent), whatever the fill direction and however the previous update had
\* drawn the bar.
C20_NoRangeOrNoValueEmptiesBar ==
    (BarUpdateRan /\ (~call.range.some \/ ~call.value.some)) =>
       /\ call.left = FracZero
       /\ call.right = FracOne

\* C20 witness: a bar that fills from the right was drawn filled, and the next
\* update fetched None
C20_Witness ==
    /\ BarUpdateRan
    /\ call.wasFilled
    /\ call.fill_direction = "Right"
    /\ call.range.some
    /\ ~call.value.some

(***************************************************************************)
(* Claims about the range hints of the predefined entries.                 *)
(***************************************************************************)
MaxValueHintRan == call.op = "max_value_hint"
\* the value of an Option of the entry's value type, as a number
FieldNum(kind, x) == IF kind = "f32" THEN x.v ELSE Num(x.v)
\* a number converted to the entry's value type, as a number
AsFieldNum(kind, x) == IF kind = "f32" THEN x ELSE Num(AsU32(x))

\* C21: max_value_hint() returns the max_value_hint field when it is set;
\* otherwise the larger of threshold_highlight and the highest stop value of
\* the entry's color gradient (in the entry's value type) when both exist, the
\* one that exists when only one does, and None when neither exists.
C21_MaxValueHintPrefersField ==
    MaxValueHintRan =>
       LET k == call.kind
           t == call.threshold_highlight
           r == call.result
       IN  IF call.max_value_hint.some THEN r = call.max_value_hint
           ELSE /\ (t.some /\ Len(stops) = 0) => r = t
                /\ (~t.some /\ Len(stops) = 0) => ~r.some
                /\ Len(stops) > 0 => r.some
                /\ t.some =>
                      \A i \in 1..Len(stops) :
                         IsHighest(stops, i) =>
                            FieldNum(k, r) = Larger(FieldNum(k, t), AsFieldNum(k, stops[i].v))
                /\ ~t.some =>
                      \A i \in 1..Len(stops) :
                         IsHighest(stops, i) => FieldNum(k, r) = AsFieldNum(k, stops[i].v)

(***************************************************************************)
(* Claims about the formatting helpers.                                    *)
(***************************************************************************)
FloatRan == call.op = "format_pretty_float" /\ call.result # FmtPending
\* the digits argument floored at 1
DigitsFloor(d) == IF d >= 1 THEN d ELSE 1
\* the budget of a column: the integer digits, one more for a carry, one for
\* a sign, the decimal point and the fraction digits
WidthBudget(digits, precision) == DigitsFloor(digits) + 3 + precision
\* the text of the largest value of the budget: 10^digits - 10^(-precision)
AllNines(digits, precision) ==
    Repeat("9", DigitsFloor(digits))
    \o (IF precision = 0 THEN <<>> ELSE <<".">> \o Repeat("9", precision))

\* C22: the length of format_pretty_float(digits, precision, value) stays
\* within a budget that depends on digits and precision only, whatever the
\* value; and every value at or above 10^digits is formatted as the largest
\* value of the budget, 10^digits - 10^(-precision), e.g. (2, 2, 1e5) as 99.99.
C22_FloatWidthBounded ==
    FloatRan =>
       /\ Len(call.result.s) <= WidthBudget(call.digits, call.precision)
       /\ (DecGe(call.value, DecWhole(Pow10(DigitsFloor(call.digits))))
             /\ call.precision <= DecPlaces)
          => call.result.s = AllNines(call.digits, call.precision)

Returned == call.result # FmtPending

\* C23: format_pretty_float, format_pretty_int, format_pretty_time and
\* format_pretty_time_hms never fail: for every digits / precision argument and
\* every value (the lowest integer, digit counts beyond the integer's width and
\* precision above 9 included) the call returns a string, without a panic from
\* an arithmetic overflow.
C23_FormattersNeverFail == Returned => call.result.tag = "ok"

HmsRan == call.op = "format_pretty_time_hms" /\ Returned
\* how many fields the text holds beyond the seconds: its colons
RECURSIVE CountOf(_, _)
CountOf(s, ch) ==
    IF s = <<>> THEN 0
    ELSE (IF Head(s) = ch THEN 1 ELSE 0) + CountOf(Tail(s), ch)
\* the fields the claim expects: hours when hours mod 100 is nonzero, minutes
\* when hours or minutes (after the modulo) is nonzero
FieldsExpected(h, m) ==
    IF h % 100 # 0 THEN 2 ELSE IF m % 60 # 0 THEN 1 ELSE 0
HmsIs(h, m, s) == call.precision = 0 /\ call.h = h /\ call.m = m /\ call.s = s

\* C24 (as claimed): format_pretty_time_hms collapses to the coarsest nonzero
\* unit: with precision 0, (0, 0, 45) yields exactly "45", (0, 5, 3) yields
\* minutes:seconds without an hours field and (2, 5, 3) yields h:mm:ss; the
\* hours field is present exactly when hours mod 100 is nonzero and the minutes
\* field exactly when hours or minutes, after the modulo, is nonzero.
C24_HmsCollapsesExactly ==
    HmsRan =>
       /\ CountOf(call.result.s, ":") = FieldsExpected(call.h, call.m)
       /\ HmsIs(0, 0, 45) => call.result.s = <<"4", "5">>
       /\ HmsIs(0, 5, 3) => CountOf(call.result.s, ":") = 1
       /\ HmsIs(2, 5, 3) => CountOf(call.result.s, ":") = 2

\* C24 (amended): the same fields, right aligned in a width of eight
\* characters: with precision 0, (0, 0, 45) yields 45 after six spaces,
\* (0, 5, 3) yields 5:03 after four spaces and (2, 5, 3) yields 2:05:03 after
\* one space.
C24_HmsCollapsesRightAligned ==
    HmsRan =>
       /\ CountOf(call.result.s, ":") = FieldsExpected(call.h, call.m)
       /\ call.precision = 0 => Len(call.result.s) = 8
       /\ HmsIs(0, 0, 45) => call.result.s = Spaces(6) \o <<"4", "5">>
       /\ HmsIs(0, 5, 3) => call.result.s = Spaces(4) \o <<"5", ":", "0", "3">>
       /\ HmsIs(2, 5, 3) =>
             call.result.s = Spaces(1) \o <<"2", ":", "0", "5", ":", "0", "3">>

C24_Witness == HmsRan /\ HmsIs(0, 0, 45)

TimeRan == call.op = "format_pretty_time" /\ Returned
\* "99:59:59", and a point and precision nines when precision > 0
ClampText(precision) ==
    <<"9", "9", ":", "5", "9", ":", "5", "9">>
    \o (IF precision > 0 THEN <<".">> \o Repeat("9", precision) ELSE <<>>)
\* the hours, minutes (0-59) and seconds (0-59) of a number of whole seconds,
\* collapsed to the coarsest nonzero unit
OwnHms(secs) ==
    LET hh == secs \div 3600
        mm == (secs \div 60) % 60
        ss == secs % 60
    IN  IF hh > 0
        THEN UIntDigits(hh) \o <<":">> \o PadLeft(UIntDigits(mm), 2, "0")
             \o <<":">> \o PadLeft(UIntDigits(ss), 2, "0")
        ELSE IF mm > 0
        THEN UIntDigits(mm) \o <<":">> \o PadLeft(UIntDigits(ss), 2, "0")
        ELSE UIntDigits(ss)
\* the text before the fraction, without the blanks in front of it
ShownHms(text) == TrimStart(SubSeq(text, 1, 8))
\* the digits after the point
ShownFraction(text) == SubSeq(text, 10, Len(text))
\* the first precision digits of the nanoseconds (precision 1 to 9)
OwnFraction(precision, nanos) ==
    PadLeft(UIntDigits(nanos \div Pow10(9 - precision)), precision, "0")

\* C25 (as claimed): format_pretty_time(precision, d) renders every duration d
\* at or beyond 99 hours 59 minutes 59 seconds as "99:59:59", followed by a
\* point and precision nines when precision > 0; every shorter duration is
\* rendered as its own hours, minutes and seconds.
C25_TimeClampsAtOrBeyondMax ==
    TimeRan =>
       IF call.value.secs >= MaxTimeSecs
       THEN call.result.s = ClampText(call.precision)
       ELSE ShownHms(call.result.s) = OwnHms(call.value.secs)

\* C25 (amended): a duration of 100 hours or more (more whole seconds than
\* 99:59:59 has) is rendered as "99:59:59" and, when precision > 0, a point and
\* precision nines; every duration below 100 hours, 99:59:59 and a fraction
\* included, is rendered as its own hours, minutes and seconds and, for a
\* precision of 1 to 9, its own fraction.
C25_TimeClampsBeyondMax ==
    TimeRan =>
       IF call.value.secs > MaxTimeSecs
       THEN call.result.s = ClampText(call.precision)
       ELSE /\ ShownHms(call.result.s) = OwnHms(call.value.secs)
            /\ call.precision \in 1..9 =>
                  ShownFraction(call.result.s) = OwnFraction(call.precision, call.value.nanos)
            /\ call.precision = 0 => Len(call.result.s) = 8

C25_Witness ==
    TimeRan /\ call.value.secs = MaxTimeSecs /\ call.value.nanos > 0 /\ call.precision = 1

(***************************************************************************)
(* Claims about next_sort_key.                                             *)
(***************************************************************************)
\* call j began after call i had returned
BeganAfter(j, i) == call.returned[j].seen >= i

\* C26: next_sort_key returns 1 on its first call; a call that begins after
\* another has returned gets a strictly greater value; and two calls, also
\* concurrent ones of different threads, never get the same value.
C26_SortKeysIncrease ==
    LET n == Len(call.returned)
    IN  /\ ( /\ n >= 1
             /\ call.returned[1].seen = 0
             /\ (\A j \in 2..n : BeganAfter(j, 1))
             /\ (\A t \in Threads : call.pc[t] # "idle" => call.seen[t] >= 1) )
           => call.returned[1].key = 1
        /\ \A i \in 1..n, j \in 1..n :
              i # j => call.returned[i].key # call.returned[j].key
        /\ \A i \in 1..n, j \in 1..n :
              BeganAfter(j, i) => call.returned[i].key < call.returned[j].key

(***************************************************************************)
(* Claims about several roots, repeated setup runs and the bar's tick.     *)
(***************************************************************************)
\* at least two roots carry the plain text widget, with different entries
TwoRootsDiffer ==
    \E r1 \in Roots, r2 \in Roots :
       /\ comp[<<r1, "text">>].some
       /\ comp[<<r2, "text">>].some
       /\ comp[<<r1, "text">>].v # comp[<<r2, "text">>].v

\* C27: when two or more roots carry the same entry type with different
\* configurations, after update_perf_ui_widget every root's value text shows
\* the value fetched and formatted by that root's own entry, never the output
\* of another root's entry.
C27_EachRootShowsOwnEntry ==
    (EndOfTick /\ TwoRootsDiffer) =>
       \A n \in WidgetNodes :
          ( /\ nodes[n].w = "text"
            /\ comp[BindingOf(nodes[n])].some
            /\ src[BindingOf(nodes[n])] # NoFetch ) =>
             ShowsFetch(nodes[n], comp[BindingOf(nodes[n])].v,
                        rootCfg[nodes[n].root], src[BindingOf(nodes[n])])

\* how many despawn commands a command list holds for node e
DespawnCount(cmds, e) ==
    Cardinality({i \in 1..Len(cmds) : cmds[i].op = "despawn_recursive" /\ cmds[i].e = e})
\* how many nodes a command list spawns for root r
SpawnCount(cmds, r) ==
    Cardinality({i \in 1..Len(cmds) : cmds[i].op = "spawn" /\ cmds[i].root = r})

\* C28: within one run of setup_perf_ui_widget no presentation node receives
\* more than one despawn command, whatever happened since the previous run; in
\* particular when W was removed from a root and attached to it again before
\* the run, the old node is despawned once and one new node is spawned.
C28_OneDespawnPerNode ==
    [][\A w \in WTypes :
          SetupRan(w) =>
             /\ \A e \in DOMAIN nodes : DespawnCount(SetupCmds(w), e) <= 1
             /\ \A r \in Roots : SpawnCount(SetupCmds(w), r) <= 1]_vars

\* what a bar update without a value leaves on the row, the text and the fill
\* offsets: the placeholder and an empty bar, all taken from the configuration
NoneUpdateShown(node, cfg, root) ==
    /\ ShowsPlaceholder(node, cfg, root)
    /\ node.left = EmptyOffsets.left
    /\ node.right = EmptyOffsets.right

\* C29 as stated: after a PerfUiWidgetBar update whose fetch returned None the
\* row background, fill offsets, fill color of the inner bar, text, font and
\* text color follow from the root and widget configuration alone, whatever was
\* fetched in earlier ticks; for the fill color that is Color::NONE, the color
\* of a bar that never had a value.
C29_NoneUpdateConfigOnly ==
    \A n \in WidgetNodes :
       ( /\ UpdatedThisFrame(n)
         /\ nodes[n].w = "bar"
         /\ src[BindingOf(nodes[n])] = NoneV ) =>
          /\ NoneUpdateShown(nodes[n], comp[BindingOf(nodes[n])].v, rootCfg[nodes[n].root])
          /\ nodes[n].barcolor = ColorNONE

\* C29 as the code has it: an update whose fetch returned None sets the row
\* background, fill offsets, text, font and text color from the configuration
\* alone and leaves the fill color of the inner bar as it was before the update.
C29_NoneUpdateKeepsFillColor ==
    [][\A n \in WidgetNodes :
          ( /\ Updated(n)
            /\ nodes[n].w = "bar"
            /\ src'[BindingOf(nodes[n])] = NoneV ) =>
             /\ NoneUpdateShown(nodes'[n], comp[BindingOf(nodes[n])].v,
                                rootCfg[nodes[n].root])
             /\ nodes'[n].barcolor = nodes[n].barcolor]_vars

\* a bar that was colored by an earlier value has been updated without a value
C29_Witness ==
    \E n \in WidgetNodes :
       /\ UpdatedThisFrame(n)
       /\ nodes[n].w = "bar"
       /\ nodes[n].hasText
       /\ src[BindingOf(nodes[n])] = NoneV
       /\ nodes[n].barcolor # ColorNONE

\* C30: with a bar gradient whose lowest and highest stop values differ,
\* get_range returns Some for every combination of present and absent entry
\* hints, and the returned range contains the whole gradient extent:
\* min <= lowest stop and max >= highest stop.
C30_RangeContainsGradient ==
    BarUpdateRan =>
       \A lo, hi \in 1..Len(stops) :
          (IsLowest(stops, lo) /\ IsHighest(stops, hi) /\ stops[lo].v # stops[hi].v) =>
             /\ call.range.some
             /\ FLe(call.range.min, stops[lo].v)
             /\ FLe(stops[hi].v, call.range.max)

====
